---- MODULE Spec2Model ----
(***************************************************************************)
(* Model of the PaySim fraud monitoring demo: the explainable risk-scoring *)
(* engine build_insights and the dashboard pages (src/ui/app.py), and the  *)
(* JSON-RPC server with its tools (src/server/mcp_server_paysim.py), and   *)
(* the loader that fills the table (src/loader/load_paysim.py).            *)
(*                                                                         *)
(* Python values are modelled as follows:                                  *)
(*   - a dict is a function whose DOMAIN is the set of keys it carries     *)
(*     (a missing key is a key outside the DOMAIN, {} is EmptyDict);       *)
(*   - None is NoneObj where a dict is expected, NoneNum where a number    *)
(*     is expected and NoneStr where a string is expected;                 *)
(*   - amounts are whole currency units (integers);                        *)
(*   - an f-string is the tuple of its literal text and the values that    *)
(*     are interpolated into it.                                           *)
(***************************************************************************)
EXTENDS Integers, Sequences, FiniteSets, TLC

VARIABLES
    args,   \* the (kpi, suspicious, tx) objects the caller holds
    log,    \* the calls of build_insights made so far, oldest first
    db,     \* the rows of table transactions, in physical order
    client, \* who talked to the server last: an API client or a dashboard page
    rpc,    \* the JSON-RPC exchanges of that last interaction, oldest first
    ins,    \* what the dashboard page made of them
    session,  \* st.session_state of a dashboard session and what it last rendered
    threads,  \* the requests the threaded server is handling, one thread each
    loaders   \* the runs of the loader, each at its position in main()

vars == <<args, log, db, client, rpc, ins, session, threads, loaders>>

-----------------------------------------------------------------------------
(* Bounds of the model *)

MaxCount == 3       \* largest nb_out in a KPI
MaxFraud == 1       \* largest fraud_out in a KPI
MaxMatches == 4     \* longest match list in a detection result
MaxCalls == 3       \* calls of build_insights in one behaviour

-----------------------------------------------------------------------------
(* Python values *)

NoneNum == -1
NoneStr == "<None>"
NoneObj == [none |-> TRUE]
EmptyDict == << >>

\* d.get(k, default)
Get(d, k, default) == IF k \in DOMAIN d THEN d[k] ELSE default

\* truthiness of a dict-or-None, as tested by `x or {}` and `if tx:`
Truthy(x) == x # NoneObj /\ DOMAIN x # {}

\* `x or d` for a dict-or-None x
OrObj(x, d) == IF Truthy(x) THEN x ELSE d

\* `x or d` for a number-or-None x: None and 0 are both falsy
OrNumIdentity(x, d) == x
OrNum(x, d) == IF x = NoneNum \/ x = 0 THEN d ELSE x

\* `x or d` for a string-or-None x
OrStr(x, d) == IF x = NoneStr \/ x = "" THEN d ELSE x

\* `x or []` for a list x (the empty list is falsy)
OrList(x, d) == IF x = << >> THEN d ELSE x

\* int(x) / float(x) raise TypeError on None
Raises(x) == x = NoneNum

\* str.upper() on the transaction types of the data set
upper(s) ==
    CASE s = "transfer" -> "TRANSFER"
      [] s = "cash_out" -> "CASH_OUT"
      [] s = "payment"  -> "PAYMENT"
      [] OTHER          -> s

Min(a, b) == IF a <= b THEN a ELSE b
Max(a, b) == IF a >= b THEN a ELSE b

-----------------------------------------------------------------------------
(* Insights helpers *)

DefaultMinAmount == 200000
DefaultWindowSteps == 10

RECURSIVE Groups(_)
Groups(x) == IF x < 1000 THEN <<x>> ELSE Append(Groups(x \div 1000), x % 1000)

\* f"{float(x):,.2f} EUR" with " " as thousands separator and "," as decimal
\* point: the groups of three digits, then the two decimals
fmt_eur(x) == [groups |-> Groups(x), decimals |-> <<0, 0>>, unit |-> "EUR"]

risk_label_strict(score) ==
    IF score > 80 THEN "Eleve"
    ELSE IF score > 50 THEN "Modere"
    ELSE "Faible"
risk_label(score) ==
    IF score >= 80 THEN "Eleve"
    ELSE IF score >= 50 THEN "Modere"
    ELSE "Faible"

\* the nested add_rule: f is the enclosing frame (score, breakdown)
add_rule_keep_points(f, rule, pts, triggered, why) ==
    [score |-> IF triggered THEN f.score + pts ELSE f.score,
     breakdown |-> Append(f.breakdown,
        [rule |-> rule, points |-> pts, triggered |-> triggered, why |-> why])]
add_rule(f, rule, pts, triggered, why) ==
    [score |-> IF triggered THEN f.score + pts ELSE f.score,
     breakdown |-> Append(f.breakdown,
        [rule |-> rule, points |-> IF triggered THEN pts ELSE 0,
         triggered |-> triggered, why |-> why])]

\* the locals `breakdown = []` and `score = 0` a call starts from
StaleFrame ==
    IF Len(log) > 0 /\ ~log[Len(log)].out.raised
    THEN [score |-> log[Len(log)].out.score, breakdown |-> << >>]
    ELSE [score |-> 0, breakdown |-> << >>]
NewFrame == [score |-> 0, breakdown |-> << >>]

\* score = min(score, 100)
clamp_none(score) == score
clamp_wrap(score) == score % 100
clamp(score) == Min(score, 100)

\* min(tx_points, 20)
tx_cap_none(tx_points) == tx_points
tx_cap(tx_points) == Min(tx_points, 20)

\* the trigger conditions of the six account rules
R1_strict(nb_out, total_out, min_amount) == nb_out < 2 /\ total_out >= min_amount
R1(nb_out, total_out, min_amount) == nb_out <= 2 /\ total_out >= min_amount
R2(nb_out, avg_out, min_amount) == avg_out >= min_amount /\ nb_out > 0
R3(matches) == Len(matches) >= 1
R4(matches) == Len(matches) >= 3
R5(fraud_out) == fraud_out > 0
R6_no_outflow_test(total_in, total_out) == total_in = 0
R6(total_in, total_out) == total_in = 0 /\ total_out > 0

next_actions_of(score) ==
    IF score >= 80 THEN
        <<"Mettre le compte en revue prioritaire (controle manuel).",
          "Verifier la coherence des soldes (old/new) sur les transferts detectes.",
          "Analyser les contreparties frequentes (name_dest) et la concentration temporelle (steps).">>
    ELSE IF score >= 50 THEN
        <<"Controle cible des transferts > seuil et de la fenetre de steps.",
          "Comparer ce compte a des comptes similaires (meme type/volumes).">>
    ELSE
        <<"Aucun signal fort : surveiller via alerting simple.",
          "Affiner le seuil si tu veux etre plus sensible (mais + faux positifs).">>

\* the bullets of the `if tx:` block that closes the list
tx_bullets_amount_first(has_tx, is_fraud, drained, high_amt) ==
    (IF has_tx /\ is_fraud THEN << [kind |-> "tx labellisee frauduleuse"] >> ELSE << >>)
    \o (IF has_tx /\ high_amt THEN << [kind |-> "tx montant tres eleve"] >> ELSE << >>)
    \o (IF has_tx /\ drained THEN << [kind |-> "tx solde vide"] >> ELSE << >>)
tx_bullets(has_tx, is_fraud, drained, high_amt) ==
    (IF has_tx /\ is_fraud THEN << [kind |-> "tx labellisee frauduleuse"] >> ELSE << >>)
    \o (IF has_tx /\ drained THEN << [kind |-> "tx solde vide"] >> ELSE << >>)
    \o (IF has_tx /\ high_amt THEN << [kind |-> "tx montant tres eleve"] >> ELSE << >>)

build_insights(kpi, suspicious, tx) ==
    LET out_ == OrObj(Get(OrObj(kpi, EmptyDict), "out", EmptyDict), EmptyDict)
        in_  == OrObj(Get(OrObj(kpi, EmptyDict), "in", EmptyDict), EmptyDict)
        nb_out    == OrNum(Get(out_, "nb_out", 0), 0)
        total_out == OrNum(Get(out_, "total_out", 0), 0)
        avg_out   == OrNum(Get(out_, "avg_out_amount", 0), 0)
        fraud_out == OrNum(Get(out_, "fraud_out", 0), 0)
        nb_in     == OrNum(Get(in_, "nb_in", 0), 0)
        total_in  == OrNum(Get(in_, "total_in", 0), 0)
        matches   == OrList(Get(OrObj(suspicious, EmptyDict), "matches", << >>), << >>)
        min_amount ==
            OrNum(Get(OrObj(suspicious, EmptyDict), "min_amount", DefaultMinAmount),
                  DefaultMinAmount)
        window_steps ==
            OrNum(Get(OrObj(suspicious, EmptyDict), "window_steps", DefaultWindowSteps),
                  DefaultWindowSteps)
        has_tx == Truthy(tx)
        txd == IF has_tx THEN tx ELSE EmptyDict
        \* the fields read in the `if tx:` blocks
        ttype == upper(OrStr(Get(txd, "type", NoneStr), ""))
        amt == OrNum(Get(txd, "amount", 0), 0)
        is_fraud == Get(txd, "is_fraud", FALSE)
        oldb == OrNum(Get(txd, "oldbalance_org", 0), 0)
        newb == OrNum(Get(txd, "newbalance_org", 0), 0)
        drained == ttype \in {"TRANSFER", "CASH_OUT"} /\ oldb > 0 /\ newb = 0
        high_amt == amt >= min_amount
        tx_points ==
            IF has_tx
            THEN (IF is_fraud THEN 15 ELSE 0) + (IF drained THEN 10 ELSE 0)
                 + (IF high_amt THEN 10 ELSE 0)
            ELSE 0
        tx_reason ==
            IF has_tx
            THEN (IF is_fraud THEN <<"transaction labellisee frauduleuse">> ELSE << >>)
                 \o (IF drained THEN <<"solde vide sur TRANSFER/CASH_OUT">> ELSE << >>)
                 \o (IF high_amt THEN <<"montant >= seuil">> ELSE << >>)
            ELSE << >>
        raised ==
            \/ \E v \in {nb_out, total_out, avg_out, fraud_out, nb_in, total_in,
                         min_amount, window_steps} : Raises(v)
            \/ has_tx /\ \E v \in {amt, oldb, newb} : Raises(v)
        f0 == NewFrame
        f1 == add_rule(f0, "Concentration des sorties", 25,
                       R1(nb_out, total_out, min_amount),
                       <<"nb_out <= 2 et total_out >= seuil", fmt_eur(min_amount)>>)
        f2 == add_rule(f1, "Montant moyen sortant eleve", 20,
                       R2(nb_out, avg_out, min_amount),
                       <<"avg_out >= seuil", fmt_eur(min_amount)>>)
        f3 == add_rule(f2, "Au moins 1 match detecte", 25, R3(matches),
                       <<">= 1 transaction sortante >= seuil dans une fenetre de steps",
                         fmt_eur(min_amount), window_steps>>)
        f4 == add_rule(f3, "Plusieurs matchs (>= 3)", 10, R4(matches),
                       <<">= 3 transactions detectees avec les parametres de detection">>)
        f5 == add_rule(f4, "Fraude labellisee (dataset)", 25, R5(fraud_out),
                       <<"Au moins une transaction sortante est marquee is_fraud=True">>)
        f6 == add_rule(f5, "Desequilibre (aucune entree)", 10, R6(total_in, total_out),
                       <<"total_in = 0 alors que total_out > 0">>)
        f7 == add_rule(f6, "Signal sur la transaction consultee", tx_cap(tx_points),
                       has_tx /\ tx_points > 0, tx_reason)
        score == clamp(f7.score)
        bullets ==
            << [kind |-> "sortantes", nb |-> nb_out, total |-> fmt_eur(total_out),
                avg |-> fmt_eur(avg_out)],
               [kind |-> "entrantes", nb |-> nb_in, total |-> fmt_eur(total_in)] >>
            \o (IF fraud_out > 0
                THEN << [kind |-> "fraude sortante", nb |-> fraud_out] >> ELSE << >>)
            \o (IF Len(matches) = 0
                THEN << [kind |-> "aucun transfert", seuil |-> fmt_eur(min_amount),
                         fenetre |-> window_steps] >>
                ELSE << [kind |-> "transferts suspects", nb |-> Len(matches),
                         seuil |-> fmt_eur(min_amount), fenetre |-> window_steps] >>)
            \o tx_bullets(has_tx, is_fraud, drained, high_amt)
    IN  IF raised
        THEN [raised |-> TRUE]
        ELSE [raised |-> FALSE,
              score |-> score,
              title |-> [label |-> risk_label(score), score |-> score, of |-> 100],
              bullets |-> bullets,
              next_actions |-> next_actions_of(score),
              breakdown |-> f7.breakdown,
              note |-> "Regles simples de demo (pas de ML)"]

-----------------------------------------------------------------------------
(* The inputs the calls are made with *)

\* the dicts that carry key k with a value of S, or do not carry k
Opt(k, S) == {EmptyDict} \cup {(k :> v) : v \in S}

KpiOutDicts ==
    {a @@ b @@ c @@ d :
        a \in Opt("nb_out", {NoneNum} \cup 0..MaxCount),
        b \in Opt("total_out", {0, 100000, 500000}),
        c \in Opt("avg_out_amount", {0, 500000}),
        d \in Opt("fraud_out", 0..MaxFraud)}

KpiInDicts ==
    {a @@ b : a \in Opt("nb_in", 0..1), b \in Opt("total_in", {0, 100000})}

Kpis ==
    {NoneObj} \cup
    {o @@ i : o \in Opt("out", {NoneObj} \cup KpiOutDicts), i \in Opt("in", KpiInDicts)}

\* KPIs as get_account_kpi returns them for an account without incoming
\* transactions
CoreKpis ==
    {[out |-> [nb_out |-> n, total_out |-> t, avg_out_amount |-> t, fraud_out |-> f],
      in |-> [nb_in |-> 0, total_in |-> 0]] :
        n \in {1, MaxCount}, t \in {0, 100000, 500000}, f \in 0..MaxFraud}

MatchLists == {[j \in 1..n |-> [id |-> j]] : n \in 0..MaxMatches}

\* a detection result carries its match list together with the echoed
\* window_steps; min_amount is carried, null or absent
Detections ==
    {NoneObj} \cup
    {a @@ b :
        a \in {EmptyDict} \cup {[matches |-> m, window_steps |-> 5] : m \in MatchLists},
        b \in Opt("min_amount", {NoneNum, 0, 100000, 200000})}

TxDicts ==
    {[type |-> t, amount |-> a, is_fraud |-> f, oldbalance_org |-> o,
      newbalance_org |-> n] :
        t \in {"TRANSFER", "CASH_OUT", "PAYMENT"}, a \in {100000, 300000},
        f \in BOOLEAN, o \in {0, 1000}, n \in {0, 1000}}

\* a smaller set of inputs, for the behaviours that call with two of them
PairInputs ==
    {[kpi |-> k, suspicious |-> s, tx |-> t] :
        k \in {c \in CoreKpis : c.out.nb_out = 1 /\ c.out.total_out # 100000
                                /\ (c.out.total_out = 0 => c.out.fraud_out = 1)},
        s \in {[matches |-> m, min_amount |-> DefaultMinAmount, window_steps |-> 10] :
                 m \in {l \in MatchLists : Len(l) \in {0, 1, 3}}},
        t \in {NoneObj} \cup {x \in TxDicts : x.type = "TRANSFER" /\ x.oldbalance_org = 1000}}

-----------------------------------------------------------------------------
(* The state machine: a caller that holds input objects and calls           *)
(* build_insights on them                                                   *)

NoSession == << >>
NoThreads == << >>
NoLoaders == << >>

\* neither a dashboard session nor a concurrent request nor a loader run
OthersIdle ==
    /\ session = NoSession
    /\ threads = NoThreads
    /\ loaders = NoLoaders

\* the server side while only build_insights is exercised: an empty table
\* and no exchange
ServerIdle ==
    /\ db = << >>
    /\ client = "none"
    /\ rpc = << >>
    /\ ins = NoneObj
    /\ OthersIdle

\* every KPI and detection is scored without a transaction; the calls with
\* a transaction are made on the KPIs of CoreKpis
Init ==
    /\ \/ \E k \in Kpis, s \in Detections :
             args = << [kpi |-> k, suspicious |-> s, tx |-> NoneObj] >>
       \/ \E k \in CoreKpis, s \in Detections, t \in {NoneObj, EmptyDict} \cup TxDicts :
             args = << [kpi |-> k, suspicious |-> s, tx |-> t] >>
    /\ log = << >>
    /\ ServerIdle

InitPair ==
    /\ args \in {<<x, y>> : x \in PairInputs, y \in PairInputs}
    /\ log = << >>
    /\ ServerIdle

\* ins = build_insights(kpi, suspicious, tx) on the i-th input; the function
\* only reads its arguments
Call(i) ==
    /\ Len(log) < MaxCalls
    /\ log' = Append(log, [i |-> i, in |-> args[i],
                           out |-> build_insights(args[i].kpi, args[i].suspicious,
                                                  args[i].tx)])
    /\ UNCHANGED <<args, db, client, rpc, ins, session, threads, loaders>>

Next == \E i \in 1..Len(args) : Call(i)

Spec == Init /\ [][Next]_vars

SpecPair == InitPair /\ [][Next]_vars

-----------------------------------------------------------------------------
(* What the claims read off a call: the inputs as the specification names   *)
(* them, and the parts of the returned assessment                           *)

Calls == 1..Len(log)

RuleNames ==
    <<"Concentration des sorties", "Montant moyen sortant eleve",
      "Au moins 1 match detecte", "Plusieurs matchs (>= 3)",
      "Fraude labellisee (dataset)", "Desequilibre (aucune entree)",
      "Signal sur la transaction consultee">>

\* a field of a KPI section; a section or field that is absent or null counts 0
KpiField(in, sec, k) ==
    LET kd == IF in.kpi = NoneObj THEN EmptyDict ELSE in.kpi
        sd == IF sec \in DOMAIN kd /\ kd[sec] # NoneObj THEN kd[sec] ELSE EmptyDict
    IN  IF k \in DOMAIN sd /\ sd[k] # NoneNum THEN sd[k] ELSE 0

\* the detection result carries an explicit min_amount
CarriesMinAmount(in) ==
    /\ in.suspicious # NoneObj
    /\ "min_amount" \in DOMAIN in.suspicious
    /\ in.suspicious["min_amount"] # NoneNum

\* the min_amount of the specification: the one embedded in the detection
\* result, 200000 if it carries none
SpecMinAmount(in) ==
    IF CarriesMinAmount(in) THEN in.suspicious["min_amount"] ELSE 200000

NbMatches(in) ==
    IF in.suspicious # NoneObj /\ "matches" \in DOMAIN in.suspicious
    THEN Len(in.suspicious["matches"]) ELSE 0

TxSupplied(in) == in.tx # NoneObj /\ in.tx # EmptyDict

TxIsFraud(in) == TxSupplied(in) /\ in.tx.is_fraud
TxDrains(in) ==
    /\ TxSupplied(in)
    /\ in.tx.type \in {"TRANSFER", "CASH_OUT"}
    /\ in.tx.oldbalance_org > 0
    /\ in.tx.newbalance_org = 0
TxIsHigh(in, m) == TxSupplied(in) /\ in.tx.amount >= m

B(b) == IF b THEN 1 ELSE 0

\* the contribution of the single-transaction rule with threshold m
SpecTxPoints(in, m) ==
    IF TxSupplied(in)
    THEN Min(20, 15 * B(TxIsFraud(in)) + 10 * B(TxDrains(in)) + 10 * B(TxIsHigh(in, m)))
    ELSE 0

\* the sum S of the points of the rules that fire with threshold m
SpecSum(in, m) ==
      25 * B(KpiField(in, "out", "nb_out") <= 2 /\ KpiField(in, "out", "total_out") >= m)
    + 20 * B(KpiField(in, "out", "nb_out") > 0
             /\ KpiField(in, "out", "avg_out_amount") >= m)
    + 25 * B(NbMatches(in) >= 1)
    + 10 * B(NbMatches(in) >= 3)
    + 25 * B(KpiField(in, "out", "fraud_out") > 0)
    + 10 * B(KpiField(in, "in", "total_in") = 0 /\ KpiField(in, "out", "total_out") > 0)
    + SpecTxPoints(in, m)

Returned(c) == ~c.out.raised

\* the threshold a call compared against, as its breakdown reports it in the
\* explanation of R1
RECURSIVE GroupsValue(_)
GroupsValue(g) ==
    IF Len(g) = 0 THEN 0
    ELSE GroupsValue(SubSeq(g, 1, Len(g) - 1)) * 1000 + g[Len(g)]

ThresholdUsed(c) == GroupsValue(c.out.breakdown[1].why[2].groups)

\* the rules a call triggered, and the sub-conditions of the transaction rule
Triggered(c) == {r \in 1..Len(c.out.breakdown) : c.out.breakdown[r].triggered}
TxReasons(c) ==
    {c.out.breakdown[7].why[r] : r \in 1..Len(c.out.breakdown[7].why)}

HasFraudBullet(c) ==
    \E b \in 1..Len(c.out.bullets) : c.out.bullets[b].kind = "fraude sortante"

-----------------------------------------------------------------------------
(* C1: every call of build_insights returns an integer score with          *)
(* 0 <= score <= 100, also when all seven rules fire (135 points).         *)
C1_ScoreInRange ==
    \A j \in Calls : Returned(log[j]) /\ log[j].out.score \in 0..100

\* a call in which all seven rules fired, the transaction rule with its
\* three sub-conditions, and the score is 100
C1_Witness ==
    \E j \in Calls :
        /\ Returned(log[j])
        /\ Triggered(log[j]) = 1..7
        /\ Cardinality(TxReasons(log[j])) = 3
        /\ log[j].out.score = 100

(* C2: for every input the score is min(100, S), S being the sum of 25 if *)
(* count <= 2 and total >= min_amount, 20 if count > 0 and avg >=          *)
(* min_amount, 25 if there is a match, 10 if there are three, 25 if        *)
(* fraud_count > 0, 10 if incoming total = 0 and outgoing total > 0, and   *)
(* the single-transaction contribution; min_amount is the threshold of the *)
(* call, the one its breakdown reports.                                    *)
C2_ScoreIsClampedSum ==
    \A j \in Calls :
        /\ Returned(log[j])
        /\ log[j].out.score = Min(100, SpecSum(log[j].in, ThresholdUsed(log[j])))

\* the example of the claim: count 1, total = avg = 500000, no fraud, no
\* incoming, min_amount 200000 and 4 matches score 90
C2_Witness ==
    \E j \in Calls :
        /\ Returned(log[j])
        /\ KpiField(log[j].in, "out", "nb_out") = 1
        /\ KpiField(log[j].in, "out", "total_out") = 500000
        /\ KpiField(log[j].in, "out", "avg_out_amount") = 500000
        /\ KpiField(log[j].in, "out", "fraud_out") = 0
        /\ KpiField(log[j].in, "in", "total_in") = 0
        /\ CarriesMinAmount(log[j].in) /\ SpecMinAmount(log[j].in) = 200000
        /\ ThresholdUsed(log[j]) = 200000
        /\ NbMatches(log[j].in) = 4
        /\ ~TxSupplied(log[j].in)
        /\ log[j].out.score = 90

(* C3: the single-transaction rule contributes                             *)
(* min(20, 15*[fraud] + 10*[TRANSFER/CASH_OUT that empties a positive      *)
(* balance] + 10*[amount >= min_amount]) when a transaction is supplied    *)
(* and 0 when none is; min_amount is the threshold of the call.            *)
C3_TxContribution ==
    \A j \in Calls :
        /\ Returned(log[j])
        /\ log[j].out.breakdown[7].points
             = SpecTxPoints(log[j].in, ThresholdUsed(log[j]))
        /\ log[j].out.score
             = Min(100, SpecSum(log[j].in, ThresholdUsed(log[j]))
                        - SpecTxPoints(log[j].in, ThresholdUsed(log[j]))
                        + log[j].out.breakdown[7].points)

\* the example of the claim: a fraud-labelled TRANSFER of 300000 that empties
\* the balance, with min_amount 200000, contributes 20
C3_Witness ==
    \E j \in Calls :
        /\ Returned(log[j])
        /\ TxSupplied(log[j].in)
        /\ log[j].in.tx.type = "TRANSFER"
        /\ log[j].in.tx.amount = 300000
        /\ TxIsFraud(log[j].in) /\ TxDrains(log[j].in)
        /\ CarriesMinAmount(log[j].in) /\ SpecMinAmount(log[j].in) = 200000
        /\ Cardinality(TxReasons(log[j])) = 3
        /\ log[j].out.breakdown[7].points = 20

(* C4 (as stated): when the detection result carries a min_amount m >= 0   *)
(* (m = 0 included), the threshold of R1, R2 and of the transaction's      *)
(* amount check is exactly m.                                              *)
C4_ThresholdIsCarriedMinAmount ==
    \A j \in Calls :
        (CarriesMinAmount(log[j].in) /\ SpecMinAmount(log[j].in) >= 0) =>
            LET in == log[j].in
                m == SpecMinAmount(in)
                bd == log[j].out.breakdown
            IN  /\ Returned(log[j])
                /\ bd[1].why[2] = fmt_eur(m)
                /\ bd[2].why[2] = fmt_eur(m)
                /\ bd[1].triggered <=> (KpiField(in, "out", "nb_out") <= 2
                                        /\ KpiField(in, "out", "total_out") >= m)
                /\ bd[2].triggered <=> (KpiField(in, "out", "nb_out") > 0
                                        /\ KpiField(in, "out", "avg_out_amount") >= m)
                /\ ("montant >= seuil" \in TxReasons(log[j])) <=> TxIsHigh(in, m)

(* C5 (as stated): the breakdown has exactly six entries (R1 to R6) when   *)
(* no transaction is supplied and exactly seven when one is, in the fixed  *)
(* rule order, and an entry that is not triggered has 0 points.            *)
C5_SixOrSevenEntries ==
    \A j \in Calls :
        LET bd == log[j].out.breakdown
        IN  /\ Returned(log[j])
            /\ Len(bd) = IF TxSupplied(log[j].in) THEN 7 ELSE 6
            /\ \A r \in 1..Len(bd) :
                  /\ bd[r].rule = RuleNames[r]
                  /\ ~bd[r].triggered => bd[r].points = 0

(* C5 (amended): the breakdown always has exactly seven entries, R1 to R6  *)
(* then the single-transaction rule, in the fixed rule order; when no      *)
(* transaction is supplied the seventh entry is not triggered; an entry    *)
(* that is not triggered has 0 points.                                     *)
C5_SevenEntries ==
    \A j \in Calls :
        LET bd == log[j].out.breakdown
        IN  /\ Returned(log[j])
            /\ Len(bd) = 7
            /\ \A r \in 1..7 :
                  /\ bd[r].rule = RuleNames[r]
                  /\ ~bd[r].triggered => bd[r].points = 0
            /\ ~TxSupplied(log[j].in) => ~bd[7].triggered

\* a call without a transaction whose breakdown has the seventh entry, not
\* triggered, next to account rules that are triggered
C5_Witness ==
    \E j \in Calls :
        /\ Returned(log[j])
        /\ ~TxSupplied(log[j].in)
        /\ Len(log[j].out.breakdown) = 7
        /\ ~log[j].out.breakdown[7].triggered
        /\ log[j].out.breakdown[7].points = 0
        /\ \E r \in 1..6 : log[j].out.breakdown[r].triggered
        /\ \E r \in 1..6 : ~log[j].out.breakdown[r].triggered

(* C6: the severity label of the title is High iff score >= 80, Moderate   *)
(* iff 50 <= score < 80 and Low iff score < 50, the title carries the      *)
(* score, and next_actions is the fixed list of the same bucket (3, 2 and  *)
(* 2 actions).                                                             *)
C6_TitleAndActionsAgree ==
    \A j \in Calls :
        LET o == log[j].out
        IN  /\ Returned(log[j])
            /\ o.title.score = o.score
            /\ (o.title.label = "Eleve") <=> (o.score >= 80)
            /\ (o.title.label = "Modere") <=> (o.score >= 50 /\ o.score < 80)
            /\ (o.title.label = "Faible") <=> (o.score < 50)
            /\ o.score >= 80 =>
                  /\ Len(o.next_actions) = 3
                  /\ o.next_actions[1]
                       = "Mettre le compte en revue prioritaire (controle manuel)."
            /\ (o.score >= 50 /\ o.score < 80) =>
                  /\ Len(o.next_actions) = 2
                  /\ o.next_actions[1]
                       = "Controle cible des transferts > seuil et de la fenetre de steps."
            /\ o.score < 50 =>
                  /\ Len(o.next_actions) = 2
                  /\ o.next_actions[1]
                       = "Aucun signal fort : surveiller via alerting simple."

\* calls that scored exactly 50 and exactly 80, the two boundaries
C6_Witness ==
    /\ \E j \in Calls :
          /\ Returned(log[j])
          /\ log[j].out.score = 50
          /\ log[j].out.title.label = "Modere"
          /\ Len(log[j].out.next_actions) = 2
    /\ \E j \in Calls :
          /\ Returned(log[j])
          /\ log[j].out.score = 80
          /\ log[j].out.title.label = "Eleve"
          /\ Len(log[j].out.next_actions) = 3

\* the case of C7 and C8: no outgoing or incoming transaction counted, no
\* match, no transaction supplied
NoActivity(in) ==
    /\ KpiField(in, "out", "nb_out") = 0
    /\ KpiField(in, "in", "nb_in") = 0
    /\ NbMatches(in) = 0
    /\ ~TxSupplied(in)

ScoreZeroAndLow(c) ==
    /\ Returned(c)
    /\ c.out.score = 0
    /\ c.out.title.label = "Faible"

(* C7 (as stated): whenever outgoing.count = 0, incoming.count = 0, the    *)
(* match list is empty and no transaction is supplied, the score is 0 and  *)
(* the title says Low, whatever the other KPI fields and min_amount are.   *)
C7_NoActivityScoresZero ==
    \A j \in Calls : NoActivity(log[j].in) => ScoreZeroAndLow(log[j])

(* C7 (amended): whenever outgoing.count = 0, incoming.count = 0, the      *)
(* match list is empty, no transaction is supplied and the KPI also has    *)
(* outgoing.total = 0 and fraud_count = 0, the score is 0 and the title    *)
(* says Low, whatever the average, incoming.total and min_amount >= 0 are. *)
C7_ConsistentNoActivityScoresZero ==
    \A j \in Calls :
        ( /\ NoActivity(log[j].in)
          /\ KpiField(log[j].in, "out", "total_out") = 0
          /\ KpiField(log[j].in, "out", "fraud_out") = 0 )
        => ScoreZeroAndLow(log[j])

\* such a call, with a non-zero average, no incoming total and an explicit
\* min_amount
C7_Witness ==
    \E j \in Calls :
        /\ NoActivity(log[j].in)
        /\ KpiField(log[j].in, "out", "total_out") = 0
        /\ KpiField(log[j].in, "out", "fraud_out") = 0
        /\ KpiField(log[j].in, "out", "avg_out_amount") > 0
        /\ KpiField(log[j].in, "in", "total_in") = 0
        /\ CarriesMinAmount(log[j].in)
        /\ ScoreZeroAndLow(log[j])

\* the KPI is None, empty, or misses a section or one of the fields
PartialKpi(in) ==
    \/ in.kpi = NoneObj
    \/ \E sec \in {"out", "in"} : sec \notin DOMAIN in.kpi
    \/ in.kpi["out"] = NoneObj
    \/ \E k \in {"nb_out", "total_out", "avg_out_amount", "fraud_out"} :
          k \notin DOMAIN in.kpi["out"]
    \/ \E k \in {"nb_in", "total_in"} : k \notin DOMAIN in.kpi["in"]

\* every field the KPI does carry is null or zero
ZeroValuedKpi(in) ==
    /\ \A k \in {"nb_out", "total_out", "avg_out_amount", "fraud_out"} :
          KpiField(in, "out", k) = 0
    /\ \A k \in {"nb_in", "total_in"} : KpiField(in, "in", k) = 0

NothingTriggered(c) ==
    /\ ScoreZeroAndLow(c)
    /\ ~HasFraudBullet(c)
    /\ Triggered(c) = {}

(* C8 (as stated): for a KPI that is None, empty, or misses the out/in     *)
(* sections or any of their fields, a detection that is None, empty or has *)
(* an empty match list, and no transaction, build_insights does not raise  *)
(* and returns score 0, a Low title, no fraud-label bullet and a breakdown *)
(* in which no rule is triggered.                                          *)
C8_PartialInputScoresZero ==
    \A j \in Calls :
        (PartialKpi(log[j].in) /\ NbMatches(log[j].in) = 0 /\ ~TxSupplied(log[j].in))
        => NothingTriggered(log[j])

(* C8 (amended): build_insights never raises on a KPI that is None, empty, *)
(* or misses sections or fields; when moreover every field the KPI carries *)
(* is null or zero, the detection is None, empty or has an empty match     *)
(* list, and no transaction is supplied, it returns score 0, a Low title,  *)
(* no fraud-label bullet and a breakdown in which no rule is triggered.    *)
C8_ZeroValuedInputScoresZero ==
    \A j \in Calls :
        /\ Returned(log[j])
        /\ (ZeroValuedKpi(log[j].in) /\ NbMatches(log[j].in) = 0
            /\ ~TxSupplied(log[j].in))
           => NothingTriggered(log[j])

\* a call on a KPI that carries a null nb_out and misses other fields, with
\* a detection that carries no min_amount
C8_Witness ==
    \E j \in Calls :
        /\ PartialKpi(log[j].in)
        /\ log[j].in.kpi # NoneObj
        /\ "out" \in DOMAIN log[j].in.kpi
        /\ log[j].in.kpi["out"] # NoneObj
        /\ "nb_out" \in DOMAIN log[j].in.kpi["out"]
        /\ log[j].in.kpi["out"]["nb_out"] = NoneNum
        /\ ZeroValuedKpi(log[j].in)
        /\ ~CarriesMinAmount(log[j].in)
        /\ NbMatches(log[j].in) = 0
        /\ ~TxSupplied(log[j].in)
        /\ NothingTriggered(log[j])

(* C9: for any two calls A and B such that every rule and every            *)
(* single-transaction sub-condition triggered for A is triggered for B,    *)
(* score(A) <= score(B).                                                   *)
C9_ScoreMonotone ==
    \A a \in Calls, b \in Calls :
        ( /\ Returned(log[a]) /\ Returned(log[b])
          /\ Triggered(log[a]) \subseteq Triggered(log[b])
          /\ TxReasons(log[a]) \subseteq TxReasons(log[b]) )
        => log[a].out.score <= log[b].out.score

\* two calls, the second triggering strictly more rules and reaching the cap
\* of 100
C9_Witness ==
    \E a \in Calls, b \in Calls :
        /\ Returned(log[a]) /\ Returned(log[b])
        /\ Triggered(log[a]) \subseteq Triggered(log[b])
        /\ Triggered(log[a]) # Triggered(log[b])
        /\ TxReasons(log[a]) \subseteq TxReasons(log[b])
        /\ log[a].out.score < log[b].out.score
        /\ log[b].out.score = 100

-----------------------------------------------------------------------------
(* The data store: table transactions (src/loader/load_paysim.py creates    *)
(* and fills it, the server only reads it)                                  *)

MaxRows == 2        \* rows in a table of mixed transactions
MaxPerType == 2     \* transactions of one type in a table of many types

\* the rows a table of mixed transactions is made of: origin, step (inside
\* or outside the default range 1..200), type (watched or not), amount
\* (below or above 200000) and fraud label. The amounts are such that every
\* average over a table is a whole number.
RowKinds ==
    << <<"A", 1, "TRANSFER", 120000, FALSE>>,
       <<"A", 1, "TRANSFER", 300000, FALSE>>,
       <<"A", 1, "TRANSFER", 300000, TRUE>>,
       <<"A", 1, "PAYMENT", 300000, FALSE>>,
       <<"A", 300, "TRANSFER", 120000, FALSE>>,
       <<"A", 300, "TRANSFER", 300000, FALSE>>,
       <<"A", 300, "PAYMENT", 120000, FALSE>>,
       <<"A", 300, "PAYMENT", 300000, FALSE>>,
       <<"B", 1, "PAYMENT", 120000, FALSE>>,
       <<"B", 300, "TRANSFER", 300000, FALSE>> >>

\* the row of kind number c; the counterparty is the other account and a
\* fraudulent transfer empties the origin account
RowOf(c) ==
    LET k == RowKinds[c]
    IN [step |-> k[2],
        type |-> k[3],
        amount |-> k[4],
        name_orig |-> k[1],
        oldbalance_org |-> IF k[5] THEN k[4] ELSE 500000,
        newbalance_org |-> IF k[5] THEN 0 ELSE 500000 - k[4],
        name_dest |-> IF k[1] = "A" THEN "B" ELSE "A",
        oldbalance_dest |-> 0,
        newbalance_dest |-> k[4],
        is_fraud |-> k[5],
        is_flagged_fraud |-> FALSE]

RowCodes == 1..Len(RowKinds)

\* the strictly increasing sequences of at most n row numbers from lo on
RECURSIVE IncreasingCodes(_, _)
IncreasingCodes(n, lo) ==
    IF n = 0 THEN {<< >>}
    ELSE {<< >>} \cup
         UNION {{<<c>> \o rest : rest \in IncreasingCodes(n - 1, c + 1)} :
                   c \in {x \in RowCodes : x >= lo}}

\* id is the SERIAL primary key: the rows are numbered as they were inserted
WithIds(rows) == [i \in DOMAIN rows |-> [id |-> i] @@ rows[i]]

\* the tables of at most MaxRows mixed transactions
MixedTables ==
    {WithIds([i \in DOMAIN cs |-> RowOf(cs[i])]) : cs \in IncreasingCodes(MaxRows, 1)}

\* the type column is free text: the five PaySim types and a lower-case one
TypeNames == <<"CASH_IN", "CASH_OUT", "DEBIT", "PAYMENT", "TRANSFER", "transfer">>

\* a table of many types: counts[i] outgoing transactions of account A of
\* the i-th type, all at step 300 and all of different amounts
RECURSIVE TypeRows(_, _)
TypeRows(counts, i) ==
    IF i > Len(counts) THEN << >>
    ELSE [j \in 1..counts[i] |->
             [step |-> 300, type |-> TypeNames[i], amount |-> 0,
              name_orig |-> "A", oldbalance_org |-> 500000, newbalance_org |-> 500000,
              name_dest |-> "B", oldbalance_dest |-> 0, newbalance_dest |-> 0,
              is_fraud |-> FALSE, is_flagged_fraud |-> FALSE]] \o TypeRows(counts, i + 1)

TypeTable(counts) ==
    LET rows == WithIds(TypeRows(counts, 1))
    IN [i \in DOMAIN rows |-> [rows[i] EXCEPT !.amount = 6000 * i]]

\* the first three types are the most frequent ones, in a fixed order; the
\* last three have 1..MaxPerType transactions each, so that the sixth place
\* is decided by the counts or is a tie
TypeTables ==
    {TypeTable(<<MaxPerType + 3, MaxPerType + 2, MaxPerType + 1>> \o rest) :
        rest \in [1..3 -> 1..MaxPerType]}

-----------------------------------------------------------------------------
(* SQL, as PostgreSQL evaluates the statements of the server                *)

\* SUM(amount) over the rows at the positions S
RECURSIVE SumAmount(_, _)
SumAmount(t, S) ==
    IF S = {} THEN 0
    ELSE LET i == CHOOSE x \in S : TRUE IN t[i].amount + SumAmount(t, S \ {i})

\* step BETWEEN lo AND hi
Between(step, lo, hi) == lo <= step /\ step <= hi

\* ORDER BY k DESC LIMIT n over the set S, k[x] being the sort key of x: the
\* statement names no second sort key, so rows of equal key come in any
\* order and any of them may be cut off; every possible result is listed
RECURSIVE OrderByDescNoLimit(_, _, _)
OrderByDescNoLimit(S, k, n) ==
    IF S = {} THEN {<< >>}
    ELSE UNION {{<<x>> \o rest : rest \in OrderByDescNoLimit(S \ {x}, k, n)} :
                   x \in {y \in S : \A z \in S : k[z] <= k[y]}}

RECURSIVE OrderByDescLimit(_, _, _)
OrderByDescLimit(S, k, n) ==
    IF n = 0 \/ S = {} THEN {<< >>}
    ELSE UNION {{<<x>> \o rest : rest \in OrderByDescLimit(S \ {x}, k, n - 1)} :
                   x \in {y \in S : \A z \in S : k[z] <= k[y]}}

-----------------------------------------------------------------------------
(* The tools of the server (src/server/mcp_server_paysim.py)                *)

\* JSON numbers are naturals here; null is NoneNum and BadNum is a JSON
\* value that int() and float() reject, such as the string "abc"
BadNum == -2

\* int(x) / float(x) raise ValueError
Unparsable(x) == x = BadNum

\* `int(x) if x is not None else d`: only None takes the default
NotNoneOrFalsy(x, d) == IF x = NoneNum \/ x = 0 THEN d ELSE x
NotNoneOr(x, d) == IF x # NoneNum THEN x ELSE d

\* f(**a): TypeError when the required `name` is missing or a keyword is
\* not a parameter of f
BindError(a, params) == "name" \notin DOMAIN a \/ ~(DOMAIN a \subseteq params)

\* what a tool or a resource read does: it raises, or returns a value; the
\* connections opened and statements executed on the way are counted
\* db_conn(): psycopg2.connect is called once, whether it returns a
\* connection or raises; the number of attempts
db_conn_retry(up) == IF up THEN 1 ELSE 2
db_conn(up) == 1

Raise(e, c, q) == [raised |-> TRUE, error |-> e, connects |-> c, queries |-> q]
Return(v, c, q) == [raised |-> FALSE, value |-> v, connects |-> c, queries |-> q]

\* the columns of a match
Match(r) ==
    [id |-> r.id, step |-> r.step, type |-> r.type, amount |-> r.amount,
     name_orig |-> r.name_orig, name_dest |-> r.name_dest, is_fraud |-> r.is_fraud]

\* WHERE name_orig=%s AND amount >= %s AND type IN ('TRANSFER','CASH_OUT')
SuspiciousWhereAnyType(r, name, min_amount) ==
    r.name_orig = name /\ r.amount >= min_amount
SuspiciousWhere(r, name, min_amount) ==
    r.name_orig = name /\ r.amount >= min_amount /\ r.type \in {"TRANSFER", "CASH_OUT"}

\* the statement of detect_suspicious: every row list fetchall() may return
SelectSuspicious(t, name, min_amount, max_rows) ==
    LET S == {i \in DOMAIN t : SuspiciousWhere(t[i], name, min_amount)}
        orders == OrderByDescLimit(S, [i \in S |-> t[i].amount], max_rows)
    IN {[j \in DOMAIN o |-> t[o[j]]] : o \in orders}

\* the dict detect_suspicious returns
DetectResultWindowed(name, min_amount, window_steps, max_rows, rows) ==
    [name |-> name, min_amount |-> min_amount, window_steps |-> window_steps,
     max_rows |-> max_rows,
     matches |-> LET near == SelectSeq(rows, LAMBDA r : r.step <= rows[1].step + window_steps)
                 IN [j \in DOMAIN near |-> Match(near[j])],
     note |-> "Regles simples de demo (pas de ML)."]
DetectResult(name, min_amount, window_steps, max_rows, rows) ==
    [name |-> name, min_amount |-> min_amount, window_steps |-> window_steps,
     max_rows |-> max_rows,
     matches |-> [j \in DOMAIN rows |-> Match(rows[j])],
     note |-> "Regles simples de demo (pas de ML)."]

\* tool_detect_suspicious(**a) on table t: the set of its possible outcomes
tool_detect_suspicious(t, up, a) ==
    LET min_amount == NotNoneOr(Get(a, "min_amount", 200000), 200000)
        window_steps == NotNoneOr(Get(a, "window_steps", 10), 10)
        max_rows == NotNoneOr(Get(a, "max_rows", 10), 10)
    IN IF BindError(a, {"name", "min_amount", "window_steps", "max_rows"})
       THEN {Raise("TypeError", 0, 0)}
       ELSE IF Unparsable(min_amount) \/ Unparsable(window_steps) \/ Unparsable(max_rows)
       THEN {Raise("ValueError", 0, 0)}
       ELSE IF ~up
       THEN {Raise("OperationalError", db_conn(up), 0)}
       ELSE {Return(DetectResult(a.name, min_amount, window_steps, max_rows, rows), 1, 1) :
                rows \in SelectSuspicious(t, a.name, min_amount, max_rows)}

\* a / b in Python: ZeroDivisionError when b is 0
ZeroDivisionError == -3
PyDiv(a, b) == IF b = 0 THEN ZeroDivisionError ELSE a \div b

\* `(float(total) / int(nb)) if nb else 0.0`
avg_unguarded(total, nb) == PyDiv(total, nb)
avg(total, nb) == IF nb # 0 THEN PyDiv(total, nb) ELSE 0

\* WHERE name_orig=%s AND step BETWEEN %s AND %s, and the same on name_dest
KpiWhereOutOpen(r, name, step_from, step_to) ==
    r.name_orig = name /\ Between(r.step, step_from, step_to - 1)
KpiWhereOut(r, name, step_from, step_to) ==
    r.name_orig = name /\ Between(r.step, step_from, step_to)
KpiWhereIn(r, name, step_from, step_to) ==
    r.name_dest = name /\ Between(r.step, step_from, step_to)

\* SELECT type, COUNT(*) as cnt ... GROUP BY type ORDER BY cnt DESC LIMIT 5:
\* every row list fetchall() may return
SelectTopTypesAnyStep(t, name, step_from, step_to) ==
    LET S == {i \in DOMAIN t : t[i].name_orig = name}
        types == {t[i].type : i \in S}
        cnt == [ty \in types |-> Cardinality({i \in S : t[i].type = ty})]
    IN {[j \in DOMAIN o |-> [type |-> o[j], cnt |-> cnt[o[j]]]] :
           o \in OrderByDescLimit(types, cnt, 5)}
SelectTopTypes(t, name, step_from, step_to) ==
    LET S == {i \in DOMAIN t : KpiWhereOut(t[i], name, step_from, step_to)}
        types == {t[i].type : i \in S}
        cnt == [ty \in types |-> Cardinality({i \in S : t[i].type = ty})]
    IN {[j \in DOMAIN o |-> [type |-> o[j], cnt |-> cnt[o[j]]]] :
           o \in OrderByDescLimit(types, cnt, 5)}

\* tool_get_account_kpi(**a): the set of its possible outcomes. The two
\* statements run one after the other in one transaction of a connection
\* that keeps PostgreSQL's default isolation level, READ COMMITTED, so each
\* statement reads the rows committed when it starts: t is the table the
\* first statement (the aggregates) reads, t2 the table the second one (the
\* top types) reads.
tool_get_account_kpi_at(t, t2, up, a) ==
    LET step_from == NotNoneOr(Get(a, "step_from", NoneNum), 1)
        step_to == NotNoneOr(Get(a, "step_to", NoneNum), 200)
        out == {i \in DOMAIN t : KpiWhereOut(t[i], a.name, step_from, step_to)}
        inc == {i \in DOMAIN t : KpiWhereIn(t[i], a.name, step_from, step_to)}
        nb_out == Cardinality(out)
        total_out == SumAmount(t, out)
        nb_in == Cardinality(inc)
        total_in == SumAmount(t, inc)
        fraud_out == Cardinality({i \in out : t[i].is_fraud})
        avg_out == avg(total_out, nb_out)
        avg_in == avg(total_in, nb_in)
    IN IF BindError(a, {"name", "step_from", "step_to"})
       THEN {Raise("TypeError", 0, 0)}
       ELSE IF Unparsable(step_from) \/ Unparsable(step_to)
       THEN {Raise("ValueError", 0, 0)}
       ELSE IF ~up
       THEN {Raise("OperationalError", db_conn(up), 0)}
       ELSE IF avg_out = ZeroDivisionError \/ avg_in = ZeroDivisionError
       THEN {Raise("ZeroDivisionError", 1, 2)}
       ELSE {Return([name |-> a.name, step_from |-> step_from, step_to |-> step_to,
                     out |-> [nb_out |-> nb_out, total_out |-> total_out,
                              avg_out_amount |-> avg_out, fraud_out |-> fraud_out],
                     in |-> [nb_in |-> nb_in, total_in |-> total_in,
                             avg_in_amount |-> avg_in],
                     top_out_types |-> top_types], 1, 2) :
                top_types \in SelectTopTypes(t2, a.name, step_from, step_to)}

\* tool_get_account_kpi(**a) while the table stays t
tool_get_account_kpi(t, up, a) == tool_get_account_kpi_at(t, t, up, a)

\* a URI is the pair of what stands before and after its first "/";
\* the empty string is << >>
NoUri == << >>

\* resource_read(uri) on table t: the set of its possible outcomes
resource_read(t, up, uri) ==
    IF uri[1] = "account"
    THEN LET name == uri[2]
             out == {i \in DOMAIN t : t[i].name_orig = name}
             inc == {i \in DOMAIN t : t[i].name_dest = name}
         IN IF ~up
            THEN {Raise("OperationalError", db_conn(up), 0)}
            ELSE {Return([name |-> name,
                          nb_out |-> Cardinality(out), total_out |-> SumAmount(t, out),
                          nb_in |-> Cardinality(inc), total_in |-> SumAmount(t, inc),
                          fraud_out |-> Cardinality({i \in out : t[i].is_fraud})], 1, 1)}
    ELSE IF uri[1] = "transaction"
    THEN LET tx_id == uri[2]
             found == {i \in DOMAIN t : t[i].id = tx_id}
         IN IF Unparsable(tx_id)
            THEN {Raise("ValueError", 0, 0)}
            ELSE IF ~up
            THEN {Raise("OperationalError", db_conn(up), 0)}
            ELSE IF found = {}
            THEN {Return([id |-> tx_id, found |-> FALSE], 1, 1)}
            ELSE {Return(t[i], 1, 1) : i \in found}
    ELSE {Return([uri |-> uri, error |-> "unknown resource"], 0, 0)}

-----------------------------------------------------------------------------
(* The JSON-RPC endpoint: Handler.do_POST                                   *)

jsonrpc_ok(_id, result) == [jsonrpc |-> "2.0", id |-> _id, result |-> result]

jsonrpc_err(_id, code, message) ==
    [jsonrpc |-> "2.0", id |-> _id, error |-> [code |-> code, message |-> message]]

TOOLS == <<"get_account_kpi", "detect_suspicious">>

\* a body that json.loads rejects
BadJson == [badjson |-> TRUE]

\* the bodies json.loads accepts that are not objects: an array, a number,
\* a string, null
JsonArray == [json_array |-> TRUE]
JsonNumber == [json_number |-> TRUE]
JsonString == [json_string |-> TRUE]
JsonNull == [json_null |-> TRUE]
NonObjects == {JsonArray, JsonNumber, JsonString, JsonNull}

\* self._send(obj, status), with the connections and statements it took
Sent(status, obj, c, q) == [status |-> status, body |-> obj, connects |-> c, queries |-> q]

\* the reply to a call that raised or returned: the `except Exception` arm
\* turns every exception into error -32000
ReplyAlwaysOk(_id, o) ==
    Sent(200, jsonrpc_ok(_id, IF o.raised THEN [error |-> o.error] ELSE o.value),
         o.connects, o.queries)
Reply(_id, o) ==
    IF o.raised
    THEN Sent(200, jsonrpc_err(_id, -32000, o.error), o.connects, o.queries)
    ELSE Sent(200, jsonrpc_ok(_id, o.value), o.connects, o.queries)

\* do_POST left on an exception before it sent anything: the server logs
\* the traceback and closes the connection, the client receives no reply
Unanswered(e) == [status |-> 0, body |-> [unanswered |-> e], connects |-> 0, queries |-> 0]

\* do_POST on the request http = [path, json]: the set of replies it may
\* send. req.get (239-241) is called before the `try`, on whatever
\* json.loads returned. t is the table the first statement of the request
\* reads, t2 the table a second statement reads.
do_POST_at(t, t2, up, http) ==
    IF http.path # "/rpc"
    THEN {Sent(404, [error |-> "not found"], 0, 0)}
    ELSE IF http.json = BadJson
    THEN {Sent(400, [error |-> "invalid json"], 0, 0)}
    ELSE IF http.json \in NonObjects
    THEN {Unanswered("AttributeError")}
    ELSE LET req == http.json
             _id == Get(req, "id", 1)
             method == Get(req, "method", NoneStr)
             params == OrObj(Get(req, "params", EmptyDict), EmptyDict)
         IN CASE method = "initialize" ->
                   {Sent(200, jsonrpc_ok(_id, [server |-> "mcp-paysim-demo",
                                               version |-> "0.1", time |-> "now"]), 0, 0)}
              [] method = "tools/list" ->
                   {Sent(200, jsonrpc_ok(_id, [tools |-> TOOLS]), 0, 0)}
              [] method = "resources/read" ->
                   LET uri == OrList(Get(params, "uri", NoUri), Get(params, "resource", NoUri))
                   IN IF uri = NoUri
                      THEN {Sent(200, jsonrpc_err(_id, -32602, "missing uri"), 0, 0)}
                      ELSE {Reply(_id, o) : o \in resource_read(t, up, uri)}
              [] method = "tools/call" ->
                   LET name == OrStr(Get(params, "name", NoneStr), Get(params, "tool", NoneStr))
                       a == OrObj(Get(params, "arguments", NoneObj),
                                  OrObj(Get(params, "params", NoneObj), EmptyDict))
                   IN IF name = "get_account_kpi"
                      THEN {Reply(_id, o) : o \in tool_get_account_kpi_at(t, t2, up, a)}
                      ELSE IF name = "detect_suspicious"
                      THEN {Reply(_id, o) : o \in tool_detect_suspicious(t, up, a)}
                      ELSE {Sent(200, jsonrpc_err(_id, -32601, <<"unknown tool: ", name>>), 0, 0)}
              [] OTHER ->
                   {Sent(200, jsonrpc_err(_id, -32601, <<"unknown method: ", method>>), 0, 0)}

\* do_POST while the table stays t
do_POST(t, up, http) == do_POST_at(t, t, up, http)

-----------------------------------------------------------------------------
(* The requests of the model                                                *)

Rpc(method, params) == [path |-> "/rpc", json |-> [id |-> 7, method |-> method, params |-> params]]

ToolCall(name, a) == Rpc("tools/call", [name |-> name, arguments |-> a])

DetectArgs ==
    {[name |-> "A"] @@ m @@ r :
        m \in Opt("min_amount", {NoneNum, 0, 200000}), r \in Opt("max_rows", 1..MaxRows)}
    \cup {[name |-> "A", window_steps |-> w] @@ m :
        w \in {NoneNum, 0, 5}, m \in Opt("min_amount", {0})}
    \cup {[name |-> "A", max_rows |-> r] : r \in {NoneNum, 0, BadNum}}
    \cup {[name |-> "A", min_amount |-> BadNum], [name |-> "A", window_steps |-> BadNum],
          [name |-> "A", limit |-> 1], [min_amount |-> 0]}

KpiArgs ==
    {[name |-> "A"] @@ f @@ g :
        f \in Opt("step_from", {NoneNum, 0, 2}), g \in Opt("step_to", {NoneNum, 1})}
    \cup {[name |-> "A", step_to |-> 300] @@ f : f \in Opt("step_from", {2})}
    \cup {[name |-> "A", step_from |-> BadNum], [name |-> "A", step_from |-> 2, step_to |-> BadNum],
          [name |-> "C"]}

\* an id no table of the model holds
UnknownId == 99

Uris ==
    {<<"account", "A">>, <<"account", "C">>, <<"transaction", BadNum>>,
     <<"transaction", UnknownId>>, <<"other", "x">>}
    \cup {<<"transaction", i>> : i \in 1..MaxRows}

Requests ==
    {ToolCall("detect_suspicious", a) : a \in DetectArgs}
    \cup {ToolCall("get_account_kpi", a) : a \in KpiArgs}
    \cup {Rpc("resources/read", [uri |-> u]) : u \in Uris}
    \cup {Rpc("resources/read", EmptyDict), Rpc("resources/read", [resource |-> <<"account", "A">>]),
          Rpc("initialize", EmptyDict), Rpc("tools/list", NoneObj), Rpc("shutdown", EmptyDict),
          ToolCall("drop_table", EmptyDict),
          [path |-> "/rpc", json |-> [method |-> "tools/list"]],
          [path |-> "/", json |-> [method |-> "tools/list"]],
          [path |-> "/rpc", json |-> BadJson]}
    \cup {[path |-> "/rpc", json |-> v] : v \in NonObjects}

-----------------------------------------------------------------------------
(* The server and its clients                                               *)

\* the table the loader left behind
InitServer ==
    /\ args = << >>
    /\ log = << >>
    /\ db \in MixedTables \cup TypeTables
    /\ client = "none"
    /\ rpc = << >>
    /\ ins = NoneObj
    /\ OthersIdle

\* the table after the statements of one exchange: every cur.execute of
\* resource_read and of the two tools is a SELECT, and leaving the `with`
\* block commits a transaction that wrote nothing
StoreAfterDelete(t, x) == IF x.queries > 0 THEN << >> ELSE t
StoreAfter(t, x) == t

RECURSIVE StoreAfterAll(_, _)
StoreAfterAll(t, xs) ==
    IF xs = << >> THEN t ELSE StoreAfterAll(StoreAfter(t, Head(xs)), Tail(xs))

\* one exchange with the server: the request, whether psycopg2.connect can
\* reach the database while it is handled, the table before and after the
\* request, and the reply
Exchange(t, up, http) ==
    {[req |-> http, up |-> up, before |-> t, after |-> StoreAfter(t, sent)] @@ sent :
        sent \in do_POST(t, up, http)}

\* A behaviour follows one client, an API client or the dashboard, through
\* its interactions: the server keeps nothing from one request to the next
\* and only reads the table, so what a client receives does not depend on
\* the other clients.

\* an API client posts a request and receives the reply
Post(http) ==
    /\ client \in {"none", "api"}
    /\ \E up \in BOOLEAN : \E x \in Exchange(db, up, http) : rpc' = <<x>>
    /\ client' = "api"
    /\ ins' = NoneObj
    /\ db' = StoreAfterAll(db, rpc')
    /\ UNCHANGED <<args, log, session, threads, loaders>>

-----------------------------------------------------------------------------
(* The dashboard pages (src/ui/app.py), each a client of the server         *)

\* mcp_call(method, params, _id): the payload is posted to /rpc and the
\* reply's JSON body is what the page reads
mcp_call(t, up, method, params, _id) ==
    Exchange(t, up, [path |-> "/rpc",
                     json |-> [jsonrpc |-> "2.0", id |-> _id, method |-> method,
                               params |-> OrObj(params, EmptyDict)]])

\* list_accounts(): the names the dropdown of a page offers
list_accounts(t) == {t[i].name_orig : i \in DOMAIN t} \cup {t[i].name_dest : i \in DOMAIN t}

\* `"error" in res`
ErrorIn(x) == "error" \in DOMAIN x.body

\* the page showed no insights / the page stopped on an exception
NoInsights == NoneObj
PageError(e) == [page_error |-> e]
\* st.info(text) was rendered
Notice(text) == [notice |-> text]

\* the values a user leaves or types in the number inputs of the pages
StepInputs == {<<1, 200>>, <<0, 300>>, <<2, 1>>}
AmountInputs == {0, 200000}
WindowInputs == {10}
IdInputs == 1..MaxRows \cup {UnknownId}

\* page "KPI Compte": one call of get_account_kpi, insights from its result
\* and an empty detection
KpiPage(name, step_from, step_to) ==
    /\ client # "api"
    /\ name \in list_accounts(db)
    /\ \E up \in BOOLEAN :
          \E res \in mcp_call(db, up, "tools/call",
                              [name |-> "get_account_kpi",
                               arguments |-> [name |-> name, step_from |-> step_from,
                                              step_to |-> step_to]], 10) :
             /\ rpc' = <<res>>
             /\ ins' = IF ErrorIn(res)
                       THEN NoInsights
                       ELSE build_insights(res.body.result,
                                           [matches |-> << >>, min_amount |-> 200000,
                                            window_steps |-> 10],
                                           NoneObj)
    /\ client' = "KPI Compte"
    /\ db' = StoreAfterAll(db, rpc')
    /\ UNCHANGED <<args, log, session, threads, loaders>>

\* the calls of page "Detection": detect_suspicious with the inputs of the
\* page, then get_account_kpi on steps 1..200, insights from both results
DetectionCalls(name, min_amount, window_steps) ==
    /\ \E up1 \in BOOLEAN :
          \E res \in mcp_call(db, up1, "tools/call",
                              [name |-> "detect_suspicious",
                               arguments |-> [name |-> name, min_amount |-> min_amount,
                                              window_steps |-> window_steps]], 20) :
             IF ErrorIn(res)
             THEN rpc' = <<res>> /\ ins' = NoInsights
             ELSE \E up2 \in BOOLEAN :
                     \E kpi_res \in mcp_call(db, up2, "tools/call",
                                             [name |-> "get_account_kpi",
                                              arguments |-> [name |-> name, step_from |-> 1,
                                                             step_to |-> 200]], 21) :
                        /\ rpc' = <<res, kpi_res>>
                        /\ ins' = IF ~ErrorIn(kpi_res)
                                  THEN build_insights(kpi_res.body.result, res.body.result,
                                                      NoneObj)
                                  ELSE NoInsights

\* page "Detection" with the account and the values its inputs hold
DetectionPage(name, min_amount, window_steps) ==
    /\ client # "api"
    /\ name \in list_accounts(db)
    /\ DetectionCalls(name, min_amount, window_steps)
    /\ client' = "Detection"
    /\ db' = StoreAfterAll(db, rpc')
    /\ UNCHANGED <<args, log, session, threads, loaders>>

\* `if "error" not in kpi_res and "error" not in det_res`
LookupGuard(kpi_res, det_res) == ~ErrorIn(kpi_res) /\ ~ErrorIn(det_res)

\* page "Lookup Tx": the transaction is read, then the KPI and the detection
\* of its origin account, insights from the three results. When one of the
\* two calls replies with an error, the page goes on to an expander that
\* reads `ins`, a name this run of the script has not bound.
LookupPage(tx_id) ==
    /\ client # "api"
    /\ \E up1 \in BOOLEAN :
          \E res \in mcp_call(db, up1, "resources/read", [uri |-> <<"transaction", tx_id>>], 30) :
             IF ErrorIn(res)
             THEN rpc' = <<res>> /\ ins' = NoInsights
             ELSE LET tx == res.body.result
                      account == Get(tx, "name_orig", NoneStr)
                  IN IF account \in {NoneStr, ""}
                     THEN rpc' = <<res>> /\ ins' = NoInsights
                     ELSE \E up2, up3 \in BOOLEAN :
                             \E kpi_res \in mcp_call(db, up2, "tools/call",
                                                     [name |-> "get_account_kpi",
                                                      arguments |-> [name |-> account,
                                                                     step_from |-> 1,
                                                                     step_to |-> 200]], 31),
                                det_res \in mcp_call(db, up3, "tools/call",
                                                     [name |-> "detect_suspicious",
                                                      arguments |-> [name |-> account,
                                                                     min_amount |-> 200000,
                                                                     window_steps |-> 10,
                                                                     max_rows |-> 10]], 32) :
                                /\ rpc' = <<res, kpi_res, det_res>>
                                /\ ins' = IF LookupGuard(kpi_res, det_res)
                                          THEN build_insights(kpi_res.body.result,
                                                              det_res.body.result, tx)
                                          ELSE Notice("Impossible de calculer KPI/Detection")
                                               @@ PageError("NameError")
    /\ client' = "Lookup Tx"
    /\ db' = StoreAfterAll(db, rpc')
    /\ UNCHANGED <<args, log, session, threads, loaders>>

NextServer ==
    \/ \E http \in Requests : Post(http)
    \/ \E name \in {"A", "B"}, steps \in StepInputs : KpiPage(name, steps[1], steps[2])
    \/ \E name \in {"A", "B"}, m \in AmountInputs, w \in WindowInputs : DetectionPage(name, m, w)
    \/ \E tx_id \in IdInputs : LookupPage(tx_id)

SpecServer == InitServer /\ [][NextServer]_vars

-----------------------------------------------------------------------------
(* What the claims read off an exchange                                     *)

Exchanges == {rpc[i] : i \in DOMAIN rpc}

\* the request is a well-formed call of method m
IsMethod(x, m) ==
    x.req.path = "/rpc" /\ x.req.json # BadJson /\ Get(x.req.json, "method", NoneStr) = m

\* the request is a call of the tool with an arguments object
IsToolCall(x, tool) ==
    /\ IsMethod(x, "tools/call")
    /\ Get(x.req.json.params, "name", NoneStr) = tool
    /\ "arguments" \in DOMAIN x.req.json.params

CallArgs(x) == x.req.json.params.arguments

\* the reply is a normal JSON-RPC result / a JSON-RPC error
HasResult(x) == x.status = 200 /\ "result" \in DOMAIN x.body
HasError(x) == x.status = 200 /\ "error" \in DOMAIN x.body

DetectCalls == {x \in Exchanges : IsToolCall(x, "detect_suspicious") /\ HasResult(x)}
KpiCalls == {x \in Exchanges : IsToolCall(x, "get_account_kpi") /\ HasResult(x)}

\* the value a parameter has by the specification: the supplied one, the
\* default when it is omitted or null
Effective(a, k, default) == IF k \in DOMAIN a /\ a[k] # NoneNum THEN a[k] ELSE default

WatchedTypes == {"TRANSFER", "CASH_OUT"}

\* the candidates of a detection, as positions in the table
Candidates(a) ==
    {i \in DOMAIN db : /\ db[i].name_orig = a.name
                       /\ db[i].amount >= Effective(a, "min_amount", 200000)
                       /\ db[i].type \in WatchedTypes}

MatchIds(x) == {x.body.result.matches[j].id : j \in DOMAIN x.body.result.matches}

-----------------------------------------------------------------------------
(* Claims on the suspicious activity detector                               *)

\* C11: every match detect_suspicious returns is a stored transaction whose
\* origin is the requested account, whose amount is at least min_amount and
\* whose type is TRANSFER or CASH_OUT.
C11_MatchesAreCandidates ==
    \A x \in DetectCalls :
        \A j \in DOMAIN x.body.result.matches :
            LET m == x.body.result.matches[j]
            IN /\ \E i \in DOMAIN db : \A k \in DOMAIN m : db[i][k] = m[k]
               /\ m.name_orig = CallArgs(x).name
               /\ m.amount >= Effective(CallArgs(x), "min_amount", 200000)
               /\ m.type \in WatchedTypes

\* a detection returned a match and left out a transaction of the account
\* that is large enough but of another type
C11_Witness ==
    \E x \in DetectCalls :
        /\ x.body.result.matches # << >>
        /\ \E i \in DOMAIN db :
              /\ db[i].name_orig = CallArgs(x).name
              /\ db[i].amount >= Effective(CallArgs(x), "min_amount", 200000)
              /\ db[i].type \notin WatchedTypes

\* C12: for max_rows >= 1 the detection returns exactly
\* min(max_rows, number of candidates) matches, in non-increasing amount
\* order, and no candidate left out has a larger amount than a returned one.
C12_TopByAmount ==
    \A x \in DetectCalls :
        LET a == CallArgs(x)
            matches == x.body.result.matches
            max_rows == Effective(a, "max_rows", 10)
        IN max_rows >= 1 =>
              /\ Len(matches) = Min(max_rows, Cardinality(Candidates(a)))
              /\ \A j \in 1..(Len(matches) - 1) : matches[j].amount >= matches[j + 1].amount
              /\ \A i \in Candidates(a) \ MatchIds(x) :
                    \A j \in DOMAIN matches : db[i].amount <= matches[j].amount

\* a detection was cut at max_rows and the candidate left out is smaller
\* than a returned one
C12_Witness ==
    \E x \in DetectCalls :
        LET a == CallArgs(x)
            matches == x.body.result.matches
        IN /\ Effective(a, "max_rows", 10) >= 1
           /\ Len(matches) = Effective(a, "max_rows", 10)
           /\ \E i \in Candidates(a) \ MatchIds(x) : db[i].amount < matches[1].amount

\* C13: for a fixed table and fixed parameters, two calls of
\* detect_suspicious return the same matches in the same order, also when
\* candidates have equal amounts and the tie straddles the max_rows cut.
C13_RepeatedCallSameMatches ==
    [][\A x \in DetectCalls :
          \A y \in {rpc'[i] : i \in DOMAIN rpc'} :
              (y.req = x.req /\ HasResult(y)) =>
                  y.body.result.matches = x.body.result.matches]_vars

\* C14: detect_suspicious echoes window_steps and does not filter by it:
\* what a call returns is, but for the echoed value, what the same call
\* returns with any other window_steps, and candidates of any step are
\* returned while max_rows allows.
WindowValues == {0, 5, 10, 300}

-----------------------------------------------------------------------------
(* Claims on the KPI aggregator                                             *)

\* the transactions the specification counts: account on the given side,
\* step within [lo, hi]
RECURSIVE CountRows(_, _, _, _, _)
CountRows(n, side, name, lo, hi) ==
    IF n = 0 THEN [count |-> 0, total |-> 0, fraud |-> 0]
    ELSE LET rest == CountRows(n - 1, side, name, lo, hi)
             r == db[n]
         IN IF r[side] = name /\ lo <= r.step /\ r.step <= hi
            THEN [count |-> rest.count + 1, total |-> rest.total + r.amount,
                  fraud |-> rest.fraud + (IF r.is_fraud THEN 1 ELSE 0)]
            ELSE rest

StepFrom(x) == Effective(CallArgs(x), "step_from", 1)
StepTo(x) == Effective(CallArgs(x), "step_to", 200)

Outgoing(x) == CountRows(Len(db), "name_orig", CallArgs(x).name, StepFrom(x), StepTo(x))
Incoming(x) == CountRows(Len(db), "name_dest", CallArgs(x).name, StepFrom(x), StepTo(x))

\* C15: get_account_kpi returns as outgoing count and total the number and
\* the sum of amounts of exactly the transactions with origin = account and
\* step_from <= step <= step_to, as incoming ones those with destination =
\* account, and as fraud_count the fraudulent outgoing ones; when
\* step_from > step_to all of them are 0 and top_out_types is empty.
C15_KpiCountsRange ==
    \A x \in KpiCalls :
        LET r == x.body.result
        IN /\ r.out.nb_out = Outgoing(x).count
           /\ r.out.total_out = Outgoing(x).total
           /\ r.out.fraud_out = Outgoing(x).fraud
           /\ r["in"].nb_in = Incoming(x).count
           /\ r["in"].total_in = Incoming(x).total
           /\ StepFrom(x) > StepTo(x) =>
                 /\ r.out.nb_out = 0 /\ r.out.total_out = 0 /\ r.out.fraud_out = 0
                 /\ r["in"].nb_in = 0 /\ r["in"].total_in = 0
                 /\ r.top_out_types = << >>

\* a KPI over a range that holds one outgoing transaction of the account and
\* leaves another one out
C15_Witness ==
    \E x \in KpiCalls :
        /\ x.body.result.out.nb_out = 1
        /\ x.body.result.out.fraud_out = 1
        /\ \E i \in DOMAIN db : db[i].name_orig = CallArgs(x).name /\ db[i].step > StepTo(x)

\* a KPI over an empty range (step_from > step_to) of an account that has
\* transactions
C15_EmptyRangeWitness ==
    \E x \in KpiCalls :
        /\ StepFrom(x) > StepTo(x)
        /\ \E i \in DOMAIN db : db[i].name_orig = CallArgs(x).name

\* C16: the average outgoing amount is total / count when count > 0 and 0.0
\* when count = 0, likewise for incoming, and the call never fails on a
\* division.
C16_AverageOrZero ==
    \A x \in Exchanges :
        (IsToolCall(x, "get_account_kpi") /\ x.connects = 1 /\ x.up) =>
            /\ HasResult(x)
            /\ LET o == x.body.result.out
                   i == x.body.result["in"]
               IN /\ IF o.nb_out > 0 THEN o.avg_out_amount * o.nb_out = o.total_out
                                     ELSE o.avg_out_amount = 0
                  /\ IF i.nb_in > 0 THEN i.avg_in_amount * i.nb_in = i.total_in
                                    ELSE i.avg_in_amount = 0

\* a KPI with two outgoing transactions of different amounts and no
\* incoming one
C16_Witness ==
    \E x \in KpiCalls :
        LET o == x.body.result.out
        IN /\ o.nb_out = 2 /\ o.total_out = 420000 /\ o.avg_out_amount = 210000
           /\ x.body.result["in"].nb_in = 0 /\ x.body.result["in"].avg_in_amount = 0

\* the number of in-range outgoing transactions of the account that have
\* type ty
TypeCount(x, ty) ==
    Cardinality({i \in DOMAIN db : /\ db[i].name_orig = CallArgs(x).name
                                   /\ StepFrom(x) <= db[i].step /\ db[i].step <= StepTo(x)
                                   /\ db[i].type = ty})

OutgoingTypes(x) == {ty \in {db[i].type : i \in DOMAIN db} : TypeCount(x, ty) > 0}

\* C17: top_out_types has at most 5 entries, one per distinct type among the
\* in-range outgoing transactions, in non-increasing count order; each listed
\* count is the true number of such transactions of that type, and a type
\* left out has a count no larger than any listed one.
C17_TopOutTypes ==
    \A x \in KpiCalls :
        LET top == x.body.result.top_out_types
            listed == {top[j].type : j \in DOMAIN top}
        IN /\ Len(top) = Min(5, Cardinality(OutgoingTypes(x)))
           /\ listed \subseteq OutgoingTypes(x)
           /\ Cardinality(listed) = Len(top)
           /\ \A j \in DOMAIN top : top[j].cnt = TypeCount(x, top[j].type)
           /\ \A j \in 1..(Len(top) - 1) : top[j].cnt >= top[j + 1].cnt
           /\ \A ty \in OutgoingTypes(x) \ listed :
                 \A j \in DOMAIN top : TypeCount(x, ty) <= top[j].cnt

\* an account with six outgoing types: five are listed and the one left out
\* is rarer than the last one listed
C17_Witness ==
    \E x \in KpiCalls :
        LET top == x.body.result.top_out_types
        IN /\ Len(top) = 5
           /\ \E ty \in OutgoingTypes(x) :
                 /\ \A j \in DOMAIN top : top[j].type # ty
                 /\ TypeCount(x, ty) < top[5].cnt

-----------------------------------------------------------------------------
(* Claims on parameters, lookups and errors                                 *)

\* C18: an omitted or null parameter takes its default (step_from 1,
\* step_to 200, min_amount 200000, window_steps 10, max_rows 10), the result
\* echoes the effective values, and a supplied value, 0 included, is used as
\* given.
C18_DefaultsAndEcho ==
    /\ \A x \in KpiCalls :
          /\ x.body.result.step_from = Effective(CallArgs(x), "step_from", 1)
          /\ x.body.result.step_to = Effective(CallArgs(x), "step_to", 200)
    /\ \A x \in DetectCalls :
          LET a == CallArgs(x)
              r == x.body.result
          IN /\ r.min_amount = Effective(a, "min_amount", 200000)
             /\ r.window_steps = Effective(a, "window_steps", 10)
             /\ r.max_rows = Effective(a, "max_rows", 10)
             /\ Get(a, "max_rows", NoneNum) = 0 => r.matches = << >>
             /\ (Get(a, "min_amount", NoneNum) = 0 /\ Effective(a, "max_rows", 10) = 10) =>
                   MatchIds(x) = {i \in DOMAIN db : db[i].name_orig = a.name
                                                    /\ db[i].type \in WatchedTypes}

\* a detection called with min_amount 0 echoes 0 and returns a transaction
\* below the default threshold
C18_Witness ==
    \E x \in DetectCalls :
        /\ Get(CallArgs(x), "min_amount", NoneNum) = 0
        /\ x.body.result.min_amount = 0
        /\ \E j \in DOMAIN x.body.result.matches : x.body.result.matches[j].amount < 200000

\* a detection called with a null min_amount and no max_rows uses 200000
\* and 10
C18_NullWitness ==
    \E x \in DetectCalls :
        /\ Get(CallArgs(x), "min_amount", 0) = NoneNum
        /\ "max_rows" \notin DOMAIN CallArgs(x)
        /\ x.body.result.min_amount = 200000 /\ x.body.result.max_rows = 10
        /\ \E i \in DOMAIN db : db[i].type \in WatchedTypes /\ db[i].name_orig = "A"
                                /\ i \notin MatchIds(x)

\* the resource reads that reached a database that is up
Lookups ==
    {x \in Exchanges : /\ IsMethod(x, "resources/read")
                       /\ "uri" \in DOMAIN x.req.json.params
                       /\ x.up}

LookupUri(x) == x.req.json.params.uri

\* no transaction names the account / has the id
UnknownAccount(name) ==
    \A i \in DOMAIN db : db[i].name_orig # name /\ db[i].name_dest # name
UnknownTransaction(id) == \A i \in DOMAIN db : db[i].id # id

\* a result that says "not found" itself
ExplicitNotFound(x) ==
    /\ HasResult(x)
    /\ "found" \in DOMAIN x.body.result
    /\ x.body.result.found = FALSE

\* C19: the lookup of an unknown transaction id and the lookup of an unknown
\* account each return an explicit not-found result, as a normal JSON-RPC
\* result and not as an error.
C19_UnknownLookupsNotFound ==
    \A x \in Lookups :
        /\ (LookupUri(x)[1] = "transaction" /\ LookupUri(x)[2] >= 0
              /\ UnknownTransaction(LookupUri(x)[2])) => ExplicitNotFound(x)
        /\ (LookupUri(x)[1] = "account" /\ UnknownAccount(LookupUri(x)[2])) =>
              ExplicitNotFound(x)

\* the exchange is a call of one of the two tools with an argument that
\* int() / float() cannot parse
HasUnparsableArgument(x) ==
    /\ \E tool \in {"get_account_kpi", "detect_suspicious"} : IsToolCall(x, tool)
    /\ \E k \in DOMAIN CallArgs(x) \ {"name"} : CallArgs(x)[k] = BadNum

\* the page called build_insights
InsightsComputed == client \notin {"none", "api"} /\ ins # NoInsights /\ "score" \in DOMAIN ins

\* C20: a tools/call whose numeric argument cannot be parsed as a number is
\* rejected with a JSON-RPC error before any query is sent to the data
\* store, and the dashboard never calls build_insights on a response that
\* carries an error.
C20_BadArgumentRejectedEarly ==
    /\ \A x \in Exchanges :
          HasUnparsableArgument(x) =>
              /\ HasError(x)
              /\ ~HasResult(x)
              /\ x.connects = 0
              /\ x.queries = 0
    /\ InsightsComputed => \A x \in Exchanges : ~ErrorIn(x)

\* a KPI call with a valid step_from and an unparsable step_to was answered
\* with an error while the database was reachable
C20_Witness ==
    \E x \in Exchanges :
        /\ IsToolCall(x, "get_account_kpi")
        /\ Get(CallArgs(x), "step_from", NoneNum) = 2
        /\ Get(CallArgs(x), "step_to", NoneNum) = BadNum
        /\ x.up
        /\ HasError(x)

\* the Lookup Tx page read a transaction and its KPI, received an error for
\* the detection and computed no insights
C20_PageWitness ==
    /\ client = "Lookup Tx"
    /\ Len(rpc) = 3
    /\ ~ErrorIn(rpc[1]) /\ ~ErrorIn(rpc[2]) /\ ErrorIn(rpc[3])
    /\ ~InsightsComputed

-----------------------------------------------------------------------------
(* Claims on failures, on the frame of the requests and on the endpoint     *)

ToolParams(tool) ==
    IF tool = "get_account_kpi"
    THEN {"name", "step_from", "step_to"}
    ELSE {"name", "min_amount", "window_steps", "max_rows"}

\* a tools/call of a known tool whose arguments bind and parse, or a
\* resources/read of an account or of a transaction id that parses: the
\* requests that need the data store
NeedsStore(x) ==
    \/ /\ \E tool \in {"get_account_kpi", "detect_suspicious"} :
              IsToolCall(x, tool) /\ DOMAIN CallArgs(x) \subseteq ToolParams(tool)
       /\ "name" \in DOMAIN CallArgs(x)
       /\ ~HasUnparsableArgument(x)
    \/ /\ IsMethod(x, "resources/read")
       /\ "uri" \in DOMAIN x.req.json.params
       /\ \/ x.req.json.params.uri[1] = "account"
          \/ /\ x.req.json.params.uri[1] = "transaction"
             /\ x.req.json.params.uri[2] # BadNum

\* C21: when the data store cannot be reached during a resources/read or a
\* tools/call, the server makes exactly one connection attempt for the
\* request, executes nothing, returns no result and answers with a JSON-RPC
\* error that carries the message of the failure.
C21_OneAttemptThenError ==
    \A x \in Exchanges :
        (NeedsStore(x) /\ ~x.up) =>
            /\ x.connects = 1
            /\ x.queries = 0
            /\ ~HasResult(x)
            /\ HasError(x)
            /\ x.body.error.code = -32000
            /\ x.body.error.message = "OperationalError"

\* a detection and a transaction lookup each failed on the connection
C21_Witness ==
    \E x \in Exchanges :
        /\ ~x.up
        /\ NeedsStore(x)
        /\ HasError(x)
        /\ \/ IsToolCall(x, "detect_suspicious")
           \/ IsMethod(x, "resources/read")

C22_FailureWitness ==
    \E x \in Exchanges : HasError(x) /\ db # << >>

-----------------------------------------------------------------------------
(* Claims on the bullets and on the breakdown of build_insights             *)

Kinds(c) == [b \in 1..Len(c.out.bullets) |-> c.out.bullets[b].kind]

\* the bullets the claim lists for an input, m being the threshold of the call
SpecBullets(in, m) ==
    <<"sortantes", "entrantes">>
    \o (IF KpiField(in, "out", "fraud_out") > 0 THEN <<"fraude sortante">> ELSE << >>)
    \o (IF NbMatches(in) = 0 THEN <<"aucun transfert">> ELSE <<"transferts suspects">>)
    \o (IF TxIsFraud(in) THEN <<"tx labellisee frauduleuse">> ELSE << >>)
    \o (IF TxDrains(in) THEN <<"tx solde vide">> ELSE << >>)
    \o (IF TxIsHigh(in, m) THEN <<"tx montant tres eleve">> ELSE << >>)

HasBullet(c, kind) == \E b \in 1..Len(c.out.bullets) : c.out.bullets[b].kind = kind

(* C24: the bullets are, in order, the outgoing line, the incoming line, a *)
(* fraud-label line iff fraud_count > 0, the no-match line iff there is no *)
(* match and the N-matches line (with N) iff there is one, then, only with *)
(* a transaction, a fraud line iff it is labelled fraud, a drain line iff  *)
(* the drain pattern holds and a high-amount line iff amount >= min_amount *)
(* (the threshold of the call); a transaction bullet appears iff its       *)
(* sub-condition is among the reasons of the single-transaction rule.      *)
C24_BulletsInOrder ==
    \A j \in Calls :
        LET c == log[j]
        IN /\ Returned(c)
           /\ Kinds(c) = SpecBullets(c.in, ThresholdUsed(c))
           /\ \A b \in 1..Len(c.out.bullets) :
                 c.out.bullets[b].kind = "transferts suspects" =>
                     c.out.bullets[b].nb = NbMatches(c.in)
           /\ HasBullet(c, "tx labellisee frauduleuse")
                 <=> "transaction labellisee frauduleuse" \in TxReasons(c)
           /\ HasBullet(c, "tx solde vide")
                 <=> "solde vide sur TRANSFER/CASH_OUT" \in TxReasons(c)
           /\ HasBullet(c, "tx montant tres eleve") <=> "montant >= seuil" \in TxReasons(c)

\* a call with a fraud-labelled, draining transaction of a high amount, on
\* an account with labelled fraud and matches: seven bullets
C24_Witness ==
    \E j \in Calls :
        /\ Returned(log[j])
        /\ Kinds(log[j]) = <<"sortantes", "entrantes", "fraude sortante",
                             "transferts suspects", "tx labellisee frauduleuse",
                             "tx solde vide", "tx montant tres eleve">>

\* a call with a transaction that adds no bullet, and one without matches
C24_PlainWitness ==
    \E j \in Calls :
        /\ Returned(log[j])
        /\ TxSupplied(log[j].in)
        /\ Kinds(log[j]) = <<"sortantes", "entrantes", "aucun transfert">>

RECURSIVE SumPoints(_)
SumPoints(breakdown) ==
    IF breakdown = << >> THEN 0
    ELSE breakdown[1].points + SumPoints(Tail(breakdown))

(* C25: the breakdown accounts for the score: score = min(100, sum of the  *)
(* points of all breakdown entries), and an entry has points > 0 iff its   *)
(* triggered flag is true.                                                 *)
C25_BreakdownAuditsScore ==
    \A j \in Calls :
        LET c == log[j]
        IN /\ Returned(c)
           /\ c.out.score = Min(100, SumPoints(c.out.breakdown))
           /\ \A r \in 1..Len(c.out.breakdown) :
                 c.out.breakdown[r].points > 0 <=> c.out.breakdown[r].triggered

\* a call whose points add up to more than 100 and that left a rule
\* untriggered
C25_Witness ==
    \E j \in Calls :
        /\ Returned(log[j])
        /\ SumPoints(log[j].out.breakdown) > 100
        /\ log[j].out.score = 100
        /\ \E r \in 1..Len(log[j].out.breakdown) : ~log[j].out.breakdown[r].triggered

-----------------------------------------------------------------------------
(* Claims on the endpoint                                                   *)

\* a POST to /rpc whose body parses as JSON
ParsedPosts == {x \in Exchanges : x.req.path = "/rpc" /\ x.req.json # BadJson}

IsObject(x) == x.req.json \notin NonObjects

KnownMethods == {"initialize", "tools/list", "resources/read", "tools/call"}

\* the tool a tools/call names
CalledTool(x) ==
    LET params == x.req.json.params
    IN IF "name" \in DOMAIN params THEN params.name ELSE NoneStr

\* C26: every POST to /rpc whose body parses as JSON, an object or any
\* other JSON value, is answered with exactly one JSON-RPC response that
\* echoes the id of the request (1 when it has none): a result for a known
\* method, error -32601 for an unknown method or tool, -32602 for a
\* resources/read without uri, -32000 for an exception raised while the
\* request is handled.
C26_EveryParsedPostAnswered ==
    \A x \in ParsedPosts :
        LET method == IF IsObject(x) THEN Get(x.req.json, "method", NoneStr) ELSE NoneStr
        IN /\ x.status = 200
           /\ x.body.jsonrpc = "2.0"
           /\ x.body.id = (IF IsObject(x) THEN Get(x.req.json, "id", 1) ELSE 1)
           /\ HasResult(x) # HasError(x)
           /\ HasError(x) => x.body.error.code \in {-32601, -32602, -32000}
           /\ method \notin KnownMethods => HasError(x) /\ x.body.error.code = -32601
           /\ method \in {"initialize", "tools/list"} => HasResult(x)
           /\ (method = "tools/call" /\ CalledTool(x) \notin {TOOLS[i] : i \in DOMAIN TOOLS}) =>
                 HasError(x) /\ x.body.error.code = -32601
           /\ (method = "resources/read"
                 /\ DOMAIN x.req.json.params \cap {"uri", "resource"} = {}) =>
                 HasError(x) /\ x.body.error.code = -32602
           /\ ((NeedsStore(x) /\ ~x.up) \/ HasUnparsableArgument(x)) =>
                 HasError(x) /\ x.body.error.code = -32000
           /\ (NeedsStore(x) /\ x.up) => HasResult(x)

-----------------------------------------------------------------------------
(* Claims on the dashboard pages                                            *)

\* the Lookup Tx page read the transaction and then received a JSON-RPC
\* error from get_account_kpi or from detect_suspicious
LookupWithFailedContext ==
    /\ client = "Lookup Tx"
    /\ Len(rpc) = 3
    /\ ~ErrorIn(rpc[1])
    /\ ErrorIn(rpc[2]) \/ ErrorIn(rpc[3])

\* C28: on the Lookup Tx page, when the transaction was read and
\* get_account_kpi or detect_suspicious replies with a JSON-RPC error, the
\* page shows the notice 'Impossible de calculer KPI/Detection' and finishes
\* rendering without computing, reading or displaying a risk assessment: no
\* assessment value that this run never computed is used.
C28_FailedContextShowsNoticeOnly ==
    LookupWithFailedContext =>
        /\ "notice" \in DOMAIN ins
        /\ "score" \notin DOMAIN ins
        /\ "page_error" \notin DOMAIN ins

-----------------------------------------------------------------------------
(* The suggested detection parameters of the Detection page                 *)
(* (src/ui/app.py, suggest_detection_params)                                *)

MaxOut == 31        \* outgoing transactions of the account with the most of them

\* a ledger of account A: n transfers to B, the first of amount hi and the
\* others of amount lo, one per step
Ledger(n, lo, hi) ==
    WithIds([i \in 1..n |->
                [step |-> i, type |-> "TRANSFER", amount |-> IF i = 1 THEN hi ELSE lo,
                 name_orig |-> "A", oldbalance_org |-> 500000, newbalance_org |-> 500000,
                 name_dest |-> "B", oldbalance_dest |-> 0, newbalance_dest |-> 0,
                 is_fraud |-> FALSE, is_flagged_fraud |-> FALSE]])

OutCounts == {0, 1, 2, 9, 10, 29, 30, MaxOut}
LedgerAmounts == {0, 181, 999, 1000, 60000, 300000}

SuggestTables ==
    {Ledger(p[1], p[2], p[3]) :
        p \in {q \in OutCounts \X LedgerAmounts \X LedgerAmounts : q[2] <= q[3]}}

\* the amounts of the rows at the positions S, in ascending order
RECURSIVE SortedAmounts(_, _)
SortedAmounts(t, S) ==
    IF S = {} THEN << >>
    ELSE LET i == CHOOSE x \in S : \A y \in S : t[x].amount <= t[y].amount
         IN <<t[i].amount>> \o SortedAmounts(t, S \ {i})

\* 20 * percentile_cont(0.95) WITHIN GROUP (ORDER BY amount): the value at
\* position 1 + 0.95 * (n - 1) of the sorted amounts, interpolated linearly
Percentile95Times20(v) ==
    LET n == Len(v)
        r == 19 * (n - 1)
        k == r \div 20
        f == r % 20
    IN IF n = 0 THEN 0
       ELSE 20 * v[k + 1] + (IF f = 0 THEN 0 ELSE f * (v[k + 2] - v[k + 1]))

\* MIN(step) / MAX(step) over the rows at the positions S, 0 by COALESCE
MinStep(t, S) == IF S = {} THEN 0 ELSE CHOOSE m \in {t[i].step : i \in S} :
                                           \A i \in S : m <= t[i].step
MaxStep(t, S) == IF S = {} THEN 0 ELSE CHOOSE m \in {t[i].step : i \in S} :
                                           \A i \in S : m >= t[i].step

\* int(base / 1000.0), base being max(p95, avg_amt * 2.0, 50_000.0) cut to
\* max_amt when max_amt > 0: the whole thousands in base. Amounts are
\* integers, p95 is p95x20 / 20 and avg_amt is total / nb_out; rounding a
\* maximum or a minimum down is the maximum or minimum of the rounded values.
Thousands(p95x20, total, nb_out, max_amt) ==
    LET base == Max(Max(p95x20 \div 20000,
                        IF nb_out > 0 THEN (2 * total) \div (1000 * nb_out) ELSE 0), 50)
    IN IF max_amt > 0 THEN Min(base, max_amt \div 1000) ELSE base

\* `if min_amount <= 0: min_amount = 50_000.0`
floor_or_default(min_amount) == IF min_amount <= 0 THEN 50000 ELSE min_amount

\* the window for an account with nb_out outgoing transactions
window_for(nb_out) == IF nb_out >= 30 THEN 5 ELSE IF nb_out >= 10 THEN 10 ELSE 20

\* suggest_detection_params(account) on table t; up tells whether db_conn()
\* reaches the database. avg_amt, p95 and density are returned as fractions.
suggest_detection_params(t, up, account) ==
    IF ~up
    THEN Raise("OperationalError", 1, 0)
    ELSE LET out == {i \in DOMAIN t : t[i].name_orig = account}
             nb_out == Cardinality(out)
             total == SumAmount(t, out)
             v == SortedAmounts(t, out)
             max_amt == IF nb_out = 0 THEN 0 ELSE v[nb_out]
             p95x20 == Percentile95Times20(v)
             min_amount == floor_or_default(1000 * Thousands(p95x20, total, nb_out, max_amt))
             span == Max(0, MaxStep(t, out) - MinStep(t, out))
         IN Return([nb_out |-> nb_out,
                    avg_amt |-> <<total, Max(nb_out, 1)>>,
                    max_amt |-> max_amt,
                    p95 |-> <<p95x20, 20>>,
                    min_amount |-> min_amount,
                    window_steps |-> window_for(nb_out),
                    step_span |-> span,
                    density |-> <<nb_out, IF span > 0 THEN span ELSE 1>>], 1, 1)

\* the ledgers of the model, no suggestion computed yet
InitSuggest ==
    /\ args = << >>
    /\ log = << >>
    /\ db \in SuggestTables
    /\ client = "none"
    /\ rpc = << >>
    /\ ins = NoneObj
    /\ OthersIdle

\* the dashboard asks for the suggestion of an account; the session holds
\* what the call returned or raised
Suggest(account) ==
    /\ \E up \in BOOLEAN :
          session' = [account |-> account, suggested |-> suggest_detection_params(db, up, account)]
    /\ UNCHANGED <<args, log, db, client, rpc, ins, threads, loaders>>

NextSuggest == \E account \in {"A", "B"} : Suggest(account)

SpecSuggest == InitSuggest /\ [][NextSuggest]_vars

\* the outgoing amounts of the account the session asked about
OutAmounts(account) == {db[i].amount : i \in {j \in DOMAIN db : db[j].name_orig = account}}
NbOut(account) == Cardinality({j \in DOMAIN db : db[j].name_orig = account})

Suggested == session # NoSession /\ ~session.suggested.raised

\* C30: for every account, suggest_detection_params returns min_amount > 0
\* and, when the account has an outgoing amount > 0, a min_amount that does
\* not exceed the largest outgoing amount of the account; window_steps is 5
\* when nb_out >= 30, 10 when 10 <= nb_out < 30, and 20 otherwise.
C30_SuggestionWithinRange ==
    Suggested =>
        LET s == session.suggested.value
            amounts == OutAmounts(session.account)
            nb_out == NbOut(session.account)
        IN /\ s.min_amount > 0
           /\ (\E a \in amounts : a > 0) => \A m \in amounts : (\A a \in amounts : a <= m) => s.min_amount <= m
           /\ s.window_steps = (IF nb_out >= 30 THEN 5 ELSE IF nb_out >= 10 THEN 10 ELSE 20)

-----------------------------------------------------------------------------
(* The session of the Detection page (src/ui/app.py, lines 636-690)         *)
(*                                                                          *)
(* session.state is st.session_state; the other fields record the last run  *)
(* of the script: the event that caused it, the state it started from       *)
(* (after the callback or the edit of that event), whether it rendered the  *)
(* two number inputs, whether it overwrote them with a suggestion, whether  *)
(* it ended on an exception, and whether the run before it did.             *)

\* `if key not in st.session_state: st.session_state[key] = default`
DetectionDefaults(st) ==
    st @@ [det_min_amount |-> 200000, det_window_steps |-> 10, det_apply_pending |-> FALSE]

\* request_apply_suggestions(): only the flag is set
request_apply_suggestions(st) == [det_apply_pending |-> TRUE] @@ st

\* the selectbox with key scan_name and index 0: a session without the key
\* receives the first account of the sorted list
FirstAccount(accounts) == IF "A" \in accounts THEN "A" ELSE "B"
selectbox(st, accounts) ==
    IF "scan_name" \in DOMAIN st THEN st ELSE [scan_name |-> FirstAccount(accounts)] @@ st

\* lines 666-670: the suggestion s replaces the values of the two inputs
\* and the flag is cleared
apply_suggestions_keep_flag(st, s) ==
    [det_min_amount |-> Get(s, "min_amount", 200000),
     det_window_steps |-> Get(s, "window_steps", 10)] @@ st
apply_suggestions(st, s) ==
    [det_min_amount |-> Get(s, "min_amount", 200000),
     det_window_steps |-> Get(s, "window_steps", 10),
     det_apply_pending |-> FALSE] @@ st

\* the session state without the keys K
Without(st, K) == [k \in DOMAIN st \ K |-> st[k]]

\* one run of the script on the Detection page from session state st, up
\* to the button: what the session holds afterwards and what was rendered.
\* A run that suggest_detection_params ends with an exception renders
\* neither input; whether the session then keeps the values under the keys
\* of the two inputs is left to Streamlit, so both outcomes are listed.
DetectionScript(t, st) ==
    LET accounts == list_accounts(t)
        st1 == selectbox(DetectionDefaults(st), accounts)
        Ran(after, rendered, applied, raised) ==
            [state |-> after, rendered |-> rendered, applied |-> applied, raised |-> raised]
    IN IF accounts = {}
       THEN {Ran(st, FALSE, FALSE, FALSE)}
       ELSE IF st1.det_apply_pending
       THEN {Ran(apply_suggestions(st1, suggest_detection_params(t, TRUE, st1.scan_name).value),
                 TRUE, TRUE, FALSE)}
            \cup {Ran(kept, FALSE, FALSE, TRUE) :
                     kept \in {st1, Without(st1, {"det_min_amount", "det_window_steps"})}}
       ELSE {Ran(st1, TRUE, FALSE, FALSE)}

\* the tables of the sessions: the mixed transactions of step 1
SessionTables == {t \in MixedTables : \A i \in DOMAIN t : t[i].step = 1}

\* what a user types into the two number inputs
EditAmounts == {0, 120000}
EditWindows == {1}

InitDetection ==
    /\ args = << >>
    /\ log = << >>
    /\ db \in SessionTables
    /\ client = "none"
    /\ rpc = << >>
    /\ ins = NoneObj
    /\ session = [state |-> EmptyDict, event |-> "none", before |-> EmptyDict,
                  rendered |-> FALSE, applied |-> FALSE, raised |-> FALSE,
                  after_raise |-> FALSE]
    /\ threads = NoThreads
    /\ loaders = NoLoaders

\* the script reruns after an event that left the session state st; when
\* the inputs are rendered the page goes on to its calls
DetectionRun(event, st) ==
    /\ \E o \in DetectionScript(db, st) :
          /\ session' = [state |-> o.state, event |-> event, before |-> st,
                         rendered |-> o.rendered, applied |-> o.applied,
                         raised |-> o.raised, after_raise |-> session.raised]
          /\ IF o.rendered
             THEN DetectionCalls(o.state.scan_name, o.state.det_min_amount,
                                 o.state.det_window_steps)
             ELSE rpc' = << >> /\ ins' = NoInsights
    /\ client' = "Detection"
    /\ db' = StoreAfterAll(db, rpc')
    /\ UNCHANGED <<args, log, threads, loaders>>

\* the user opens the page or reruns the script
Rerun == DetectionRun("rerun", session.state)

\* the user picks another account in the selectbox: on_change runs, then
\* the script
ChangeAccount(name) ==
    /\ "scan_name" \in DOMAIN session.state
    /\ name \in list_accounts(db) \ {session.state.scan_name}
    /\ DetectionRun("account",
                    request_apply_suggestions([scan_name |-> name] @@ session.state))

\* the user clicks Auto-ajuster, rendered after the two inputs: on_click
\* runs, then the script
AutoAdjust ==
    /\ session.rendered
    /\ DetectionRun("auto", request_apply_suggestions(session.state))

\* the user types a value into one of the two inputs
EditAmount(v) ==
    /\ session.rendered
    /\ v # session.state.det_min_amount
    /\ DetectionRun("edit", [det_min_amount |-> v] @@ session.state)

EditWindow(v) ==
    /\ session.rendered
    /\ v # session.state.det_window_steps
    /\ DetectionRun("edit", [det_window_steps |-> v] @@ session.state)

NextDetection ==
    \/ Rerun
    \/ \E name \in {"A", "B"} : ChangeAccount(name)
    \/ AutoAdjust
    \/ \E v \in EditAmounts : EditAmount(v)
    \/ \E v \in EditWindows : EditWindow(v)

SpecDetection == InitDetection /\ [][NextDetection]_vars

-----------------------------------------------------------------------------
(* Claims on the session of the Detection page                              *)

\* the script has run in this session
HasRun == session.event # "none"

\* the values the two inputs hold for a session state
InputValues(st) ==
    <<DetectionDefaults(st).det_min_amount, DetectionDefaults(st).det_window_steps>>

\* the last run left the user's values as they were (200000 and 10 at first)
ValuesKept == InputValues(session.state) = InputValues(session.before)

\* the last run directly followed an account change or an Auto-ajuster click
AfterRequest == session.event \in {"account", "auto"}

\* the suggestion for the account of the selectbox
SuggestionShown ==
    LET s == suggest_detection_params(db, TRUE, session.state.scan_name).value
    IN InputValues(session.state) = <<s.min_amount, s.window_steps>>

C29_DeferredWitness ==
    /\ HasRun
    /\ session.event = "rerun"
    /\ session.after_raise
    /\ session.applied

\* an edit was kept by the rerun that followed it
C29_EditWitness ==
    /\ HasRun
    /\ session.event = "edit"
    /\ session.rendered
    /\ InputValues(session.state) = <<120000, 1>>

-----------------------------------------------------------------------------
(* The loader (src/loader/load_paysim.py, main) and the threaded server     *)
(* (src/server/mcp_server_paysim.py, main) on one table                     *)

MaxRuns == 2        \* runs of the loader
MaxThreads == 2     \* requests the server accepts

\* the rows read from the CSV file, in file order
CsvRows == <<RowOf(1), RowOf(2), RowOf(9)>>

\* the table after the rows were inserted k times
RECURSIVE Repeated(_)
Repeated(k) == IF k = 0 THEN << >> ELSE Repeated(k - 1) \o CsvRows
Copies(k) == WithIds(Repeated(k))

\* a run of the loader: where it stands in main(), what its COUNT(*)
\* returned and how many rows the table held when its INSERT was committed
LoaderAt(pc, existing, found) == [pc |-> pc, existing |-> existing, found |-> found]

\* a request in a thread of ThreadingHTTPServer: where its handler stands,
\* whether db_conn() reached the database, the table its first statement
\* read while the second one is to come, and the reply it sent
ThreadAt(req, pc, up, seen, sent) ==
    [req |-> req, pc |-> pc, up |-> up, seen |-> seen, sent |-> sent]

ConcurrentRequests ==
    {ToolCall("get_account_kpi", [name |-> "A"]),
     ToolCall("detect_suspicious", [name |-> "A", min_amount |-> 0, max_rows |-> 1])}

\* an empty table, a server without requests, no loader run started
InitConcurrent ==
    /\ args = << >>
    /\ log = << >>
    /\ db = << >>
    /\ client = "none"
    /\ rpc = << >>
    /\ ins = NoneObj
    /\ session = NoSession
    /\ threads = << >>
    /\ loaders = [p \in 1..MaxRuns |-> LoaderAt("idle", 0, 0)]

\* lines 119-131: the run connects, counts the rows and stops when there
\* are some; autocommit is off, the count reads the committed rows
LoaderCount(p) ==
    /\ loaders[p].pc = "idle"
    /\ loaders' = [loaders EXCEPT ![p] =
                      LoaderAt(IF Len(db) > 0 THEN "skipped" ELSE "inserting", Len(db), 0)]
    /\ UNCHANGED <<args, log, db, client, rpc, ins, session, threads>>

\* lines 133-150: execute_values and commit; the rows become visible to the
\* other connections at the commit, numbered after the rows already there
LoaderCommit(p) ==
    /\ loaders[p].pc = "inserting"
    /\ db' = WithIds([i \in DOMAIN db |-> Without(db[i], {"id"})] \o CsvRows)
    /\ loaders' = [loaders EXCEPT ![p] = LoaderAt("done", loaders[p].existing, Len(db))]
    /\ UNCHANGED <<args, log, client, rpc, ins, session, threads>>

\* connect_with_retry gives up after max_wait_s: RuntimeError, nothing read
\* and nothing written
LoaderGivesUp(p) ==
    /\ loaders[p].pc = "idle"
    /\ loaders' = [loaders EXCEPT ![p] = LoaderAt("failed", 0, 0)]
    /\ UNCHANGED <<args, log, db, client, rpc, ins, session, threads>>

\* the request needs two statements: a get_account_kpi that reaches its
\* first cur.execute
TwoStatements(t, up, http) == \E r \in do_POST(t, up, http) : r.queries = 2

\* serve_forever accepts a request and hands it to a new thread
Accept(http) ==
    /\ Len(threads) < MaxThreads
    /\ threads' = Append(threads, ThreadAt(http, "handling", TRUE, << >>, NoneObj))
    /\ UNCHANGED <<args, log, db, client, rpc, ins, session, loaders>>

\* the handler runs up to its reply, or up to the end of its first
\* statement when the request has two
Execute(i) ==
    /\ threads[i].pc = "handling"
    /\ \E up \in BOOLEAN :
          IF TwoStatements(db, up, threads[i].req)
          THEN threads' = [threads EXCEPT ![i] =
                              ThreadAt(threads[i].req, "between", up, db, NoneObj)]
          ELSE \E sent \in do_POST(db, up, threads[i].req) :
                  threads' = [threads EXCEPT ![i] =
                                 ThreadAt(threads[i].req, "done", up, << >>, sent)]
    /\ UNCHANGED <<args, log, db, client, rpc, ins, session, loaders>>

\* the second statement of get_account_kpi and the reply
Respond(i) ==
    /\ threads[i].pc = "between"
    /\ \E sent \in do_POST_at(threads[i].seen, db, threads[i].up, threads[i].req) :
          threads' = [threads EXCEPT ![i] =
                         ThreadAt(threads[i].req, "done", threads[i].up, << >>, sent)]
    /\ UNCHANGED <<args, log, db, client, rpc, ins, session, loaders>>

NextConcurrent ==
    \/ \E p \in 1..MaxRuns : LoaderCount(p)
    \/ \E p \in 1..MaxRuns : LoaderCommit(p)
    \/ \E p \in 1..MaxRuns : LoaderGivesUp(p)
    \/ \E http \in ConcurrentRequests : Accept(http)
    \/ \E i \in DOMAIN threads : Execute(i)
    \/ \E i \in DOMAIN threads : Respond(i)

SpecConcurrent == InitConcurrent /\ [][NextConcurrent]_vars

-----------------------------------------------------------------------------
(* Claims on concurrent requests and on the loader                          *)

\* the states the table can be in
TableStates == {Copies(k) : k \in 0..MaxRuns}

Answered == {i \in DOMAIN threads : threads[i].pc = "done"}

\* C23: whatever the interleaving of the requests the threaded server
\* handles, each response is the one the same request produces when it is
\* evaluated alone and atomically against one state of table transactions;
\* in particular the aggregate counts and the top types of one
\* get_account_kpi call describe the same set of rows.
C23_ResponsesAtomic ==
    \A i \in Answered :
        \E t \in TableStates :
            threads[i].sent \in do_POST(t, threads[i].up, threads[i].req)

\* C27: however many runs of the loader there are, one after the other or
\* overlapping, the table never holds more than one copy of the CSV rows: a
\* run inserts only into an empty table and a run that finds rows inserts
\* nothing.
C27_AtMostOneCopy ==
    /\ Len(db) <= Len(CsvRows)
    /\ \A p \in DOMAIN loaders :
          /\ loaders[p].pc = "done" => loaders[p].found = 0
          /\ loaders[p].pc = "skipped" => loaders[p].existing > 0

====
